---- MODULE Spec2Model ----
(***************************************************************************)
(* Model of the agent orchestration core of deep-researcher:                *)
(*   backend/chat/graph.py          the parent graph (AgentState)           *)
(*   backend/chat/nodes.py          its nodes and routing functions         *)
(*   backend/chat/research_graph.py the deep research subgraph              *)
(*   backend/chat/views_stream.py   the stream / resume endpoints           *)
(* One conversation thread is modelled: its persisted checkpoint (parent    *)
(* state, subgraph state, pending interrupt), the request being served and  *)
(* the report table of the database.                                        *)
(***************************************************************************)
EXTENDS Integers, Sequences, FiniteSets, TLC

VARIABLES
    messages,          \* AgentState.messages (add_messages reducer)
    research_reports,  \* AgentState.research_reports (operator.add reducer)
    pending_save,      \* AgentState.pending_save
    topic,             \* AgentState.topic
    depth,             \* AgentState.depth
    report,            \* AgentState.report
    pc,                \* the parent node that runs next ("end": no task left)
    sub,               \* DeepResearchState of the running research invocation
    subpc,             \* the subgraph node that runs next ("none": no invocation)
    tasks,             \* the explorer tasks of the current fan-out superstep
    interrupt,         \* the payload of the pending interrupt, or None
    resume_value,      \* the Command(resume=...) value the last step applied, or None
    run,               \* the request being served: "idle", "stream" or "resume"
    db_reports,        \* rows of the ResearchReport table
    next_id,           \* source of tool call ids
    turns,             \* agent turns that issued tool calls, so far
    redos,             \* redo rounds of the current research invocation
    runs,              \* stream_run requests so far
    last_req,          \* the previous request: its kind and resume value
    retried,           \* the request being served repeats the previous resume
    scope,             \* what the run explores: "thread", "retry" or "research"
    fin,               \* input of the function under check (function specs)
    fout,              \* its result
    stream             \* the SSE events of the latest request, and the handler's
                       \* pending_tool_calls

vars == << messages, research_reports, pending_save, topic, depth, report, pc,
           sub, subpc, tasks, interrupt, resume_value, run, db_reports,
           next_id, turns, redos, runs, last_req, retried, scope, fin, fout, stream >>

NULL == "null"

\* Python's None and a present value
None == << >>
Some(x) == << x >>
Val(o) == o[1]

-----------------------------------------------------------------------------
(* Bounds of the model *)

MaxTurns == 2       \* agent turns with tool calls per thread
ResearchTurns == 1  \* the same, when one research invocation is explored in detail
MaxRuns == 2        \* stream_run requests per thread
MaxRedo == 1        \* redo rounds per research invocation
MaxRows == 3        \* database rows up to which a resume without interrupt is tried
MaxTopics == 2      \* sub-topics the reasoning model suggests
MaxInstr == 3       \* instructions the reasoning model returns
MaxCalls == 3       \* tool calls of one assistant message (routing check)
MaxTopicCount == 9  \* clarified topics given to orchestrate (orchestrate check)
MaxReturned == 9    \* instructions returned to orchestrate (orchestrate check)
MaxReports == 3     \* reports of the thread given to the report selection
MaxIndex == 4       \* report_index runs from -MaxIndex to MaxIndex
MaxExprLen == 3
FloatDigits == 3
MaxScript == 2
MaxInterrupts == 3

-----------------------------------------------------------------------------
(* Sequence helpers *)

Min(a, b) == IF a <= b THEN a ELSE b

Take(s, n) == SubSeq(s, 1, Min(n, Len(s)))

Range(s) == { s[i] : i \in 1..Len(s) }

RECURSIVE Flatten(_)
Flatten(ss) == IF ss = << >> THEN << >> ELSE Head(ss) \o Flatten(Tail(ss))

-----------------------------------------------------------------------------
(* Messages and tool calls *)

SimpleTools == { "get_current_time", "calculator", "tavily_search", "create_plan" }

\* the real tools whose body has no exception handler around a call that can fail
UncaughtTools == { "create_plan" }

AllTools == SimpleTools \cup { "deep_research", "save_report" }

ToolCall(name, id, args) == [ name |-> name, id |-> id, args |-> args ]

HumanMessage(content) ==
    [ type |-> "human", content |-> content, tool_calls |-> << >>,
      tool_call_id |-> NULL, name |-> NULL ]

SystemMessage(content) ==
    [ type |-> "system", content |-> content, tool_calls |-> << >>,
      tool_call_id |-> NULL, name |-> NULL ]

AIMessage(content, calls) ==
    [ type |-> "ai", content |-> content, tool_calls |-> calls,
      tool_call_id |-> NULL, name |-> NULL ]

ToolMessage(content, id, name) ==
    [ type |-> "tool", content |-> content, tool_calls |-> << >>,
      tool_call_id |-> id, name |-> name ]

-----------------------------------------------------------------------------
(* Routing after the agent node *)

\* hasattr(last_message, "tool_calls") and last_message.tool_calls
HasToolCalls(m) == m.type = "ai" /\ m.tool_calls # << >>

ToolNames(m) == { m.tool_calls[i].name : i \in 1..Len(m.tool_calls) }

ShouldContinueSaveFirst(msgs) ==
    LET last == msgs[Len(msgs)] IN
    IF HasToolCalls(last)
    THEN IF "save_report" \in ToolNames(last) THEN "save_confirm"
         ELSE IF "deep_research" \in ToolNames(last) THEN "deep_research"
         ELSE "tools"
    ELSE "end"

\* a router that prefers the real tools to the sentinels
ShouldContinueToolsFirst(msgs) ==
    LET last == msgs[Len(msgs)] IN
    IF HasToolCalls(last)
    THEN IF ToolNames(last) \cap SimpleTools # {} THEN "tools"
         ELSE IF "deep_research" \in ToolNames(last) THEN "deep_research"
         ELSE "save_confirm"
    ELSE "end"

ShouldContinue(msgs) ==
    LET last == msgs[Len(msgs)] IN
    IF HasToolCalls(last)
    THEN IF "deep_research" \in ToolNames(last) THEN "deep_research"
         ELSE IF "save_report" \in ToolNames(last) THEN "save_confirm"
         ELSE "tools"
    ELSE "end"

\* a path map whose tools branch leaves the graph
AgentBranchToolsToEnd(route) ==
    CASE route = "tools" -> "end"
      [] route = "deep_research" -> "prepare_research"
      [] route = "save_confirm" -> "save_confirm"
      [] route = "end" -> "end"

\* the path map of add_conditional_edges("agent", should_continue, ...)
AgentBranch(route) ==
    CASE route = "tools" -> "tools"
      [] route = "deep_research" -> "prepare_research"
      [] route = "save_confirm" -> "save_confirm"
      [] route = "end" -> "end"

-----------------------------------------------------------------------------
(* Orchestrate: the number of explorer instructions *)

DEPTH_QUICK == 3
DEPTH_STANDARD == 5
DEPTH_DEEP == 8
DEPTH_DEFAULT == 5

\* DEPTH_MAP.get(depth, 5)
DepthWidth(d) ==
    CASE d = "quick" -> DEPTH_QUICK
      [] d = "standard" -> DEPTH_STANDARD
      [] d = "deep" -> DEPTH_DEEP
      [] OTHER -> DEPTH_DEFAULT

NumExplorers(topics, d) == Min(Len(topics), DepthWidth(d))

QueryPool == << "q1", "q2", "q3", "q4", "q5", "q6", "q7", "q8", "q9", "q10", "q11" >>

\* the model's i-th instruction, after model_dump()
Instruction(i) ==
    [ query |-> QueryPool[i], search_focus |-> QueryPool[i], context |-> "" ]

\* the instruction list the reasoning model returned, of length k
Returned(k) == [ i \in 1..k |-> Instruction(i) ]

OrchestrateResult(topics, d, returned) ==
    [ explorer_instructions |-> Take(returned, NumExplorers(topics, d)),
      status |-> "orchestrated" ]

-----------------------------------------------------------------------------
(* Values exchanged with the collaborators *)

Content(tag, title) == [ tag |-> tag, title |-> title ]

\* Resume values of Command(resume=...): a list of option ids, a dict with
\* an optional action and optional edits, or a string.
ResumeList(ids) == [ kind |-> "list", ids |-> ids, action |-> None, edits |-> None ]
ResumeDict(action, edits) ==
    [ kind |-> "dict", ids |-> << >>, action |-> action, edits |-> edits ]
ResumeStr(str) == [ kind |-> "str", ids |-> << >>, action |-> Some(str), edits |-> None ]

TopicIds == << "topic_0", "topic_1", "topic_2", "topic_3", "topic_4", "topic_5" >>

ResumeValues ==
    { ResumeList(<< >>), ResumeList(<< TopicIds[1] >>), ResumeList(<< TopicIds[2] >>),
      ResumeDict(Some("approve"), None),
      ResumeDict(Some("edit"), Some("X")),
      ResumeDict(Some("edit"), None),
      ResumeDict(Some("redo"), None),
      ResumeDict(Some("save"), None),
      ResumeDict(Some("cancel"), None),
      ResumeDict(None, None),
      ResumeStr("save") }

\* Sub-topic lists the reasoning model may suggest in clarify
TopicPool == << "t1", "t2", "t3", "t4", "t5", "t6", "t7", "t8", "t9", "t10", "t11",
               "t12" >>

\* The scope "research" explores one research invocation with every answer
\* of the collaborators; the other scopes explore whole threads with fewer.
Detailed == scope = "research"

CandidateLists ==
    IF Detailed
    THEN { [ i \in 1..n |-> TopicPool[i + s] ] : n \in { 0, MaxTopics }, s \in { 0, 1 } }
    ELSE { [ i \in 1..MaxTopics |-> TopicPool[i] ] }

\* How many instructions the reasoning model may return in orchestrate
InstrCounts == IF Detailed THEN 0..MaxInstr ELSE { 0, MaxInstr }

\* ResearchReport.model_dump(), reduced to two of its fields
Report(title, summary) == [ title |-> title, summary |-> summary ]

ReportTitles == { "A", "B" }

\* SearchResult(...).model_dump()
SearchResult(url, title, content, score) ==
    [ url |-> url, title |-> title, content |-> content, score |-> score ]

\* What TavilySearchResults.invoke may do: return a list of records (a record
\* may lack its title), return a string, return something else, or raise.
RawItem(url, title, content, score) ==
    [ url |-> url, title |-> title, content |-> content, score |-> score ]

RawLists ==
    { << RawItem("u1", Some("n1"), "c1", 1) >>,
      << RawItem("u1", Some("n1"), "c1", 1), RawItem("u2", None, "c2", 0) >> }

SearchOutcomes ==
    IF Detailed
    THEN { [ kind |-> "list", items |-> l ] : l \in RawLists }
           \cup { [ kind |-> k, items |-> << >> ] : k \in { "str", "raise", "other" } }
    ELSE { [ kind |-> "list", items |-> << RawItem("u1", Some("n1"), "c1", 1) >> ],
           [ kind |-> "raise", items |-> << >> ] }

-----------------------------------------------------------------------------
(* HITL payloads *)

HITLOption(id, label) == [ id |-> id, label |-> label ]

\* a payload whose report is left out
HITLPayloadWithoutReport(hitl_type, title, message, options, rep) ==
    [ hitl_type |-> hitl_type, title |-> title, message |-> message,
      options |-> options, report |-> None ]

\* HITLPayload(...).model_dump(): message is the text, with the topic where
\* the text quotes it
HITLPayload(hitl_type, title, message, options, rep) ==
    [ hitl_type |-> hitl_type, title |-> title, message |-> message,
      options |-> options, report |-> rep ]

ClarifyOptions(subtopics) ==
    [ i \in 1..Len(subtopics) |-> HITLOption(TopicIds[i], subtopics[i]) ]

ReviewOptions ==
    << HITLOption("approve", "Approve"), HITLOption("edit", "Edit"),
       HITLOption("redo", "Redo") >>

SaveOptions == << HITLOption("save", "Save"), HITLOption("cancel", "Cancel") >>

-----------------------------------------------------------------------------
(* The research subgraph: DeepResearchState and its nodes *)

\* a sub-pipeline state that starts with the report the parent holds
FreshResearchSharesReport(t, d) ==
    [ topic |-> t, depth |-> d, clarified_topics |-> << >>,
      explorer_instructions |-> << >>, search_results |-> << >>,
      report |-> report, status |-> "" ]

FreshResearch(t, d) ==
    [ topic |-> t, depth |-> d, clarified_topics |-> << >>,
      explorer_instructions |-> << >>, search_results |-> << >>,
      report |-> None, status |-> "" ]

NoResearch == FreshResearch("", "")

RECURSIVE SelectLabels(_, _)
\* for opt in options: if opt.id in selected_ids: append opt.label
SelectLabels(options, ids) ==
    IF options = << >> THEN << >>
    ELSE (IF Head(options).id \in Range(ids) THEN << Head(options).label >> ELSE << >>)
         \o SelectLabels(Tail(options), ids)

\* clarify_node after interrupt() returned user_response, with the options
\* and sub-topics this execution of the node computed
ClarifySelection(subtopics, options, user_response) ==
    LET selected_ids == IF user_response.kind = "list" THEN user_response.ids ELSE << >>
        selected_topics == SelectLabels(options, selected_ids)
    IN IF selected_topics = << >> THEN subtopics ELSE selected_topics

\* explorer_node: the results one explorer returns for its Send payload
ExplorerResultsDropError(state, outcome) ==
    CASE outcome.kind = "list" ->
           [ i \in 1..Len(outcome.items) |->
               LET r == outcome.items[i] IN
               SearchResult(r.url, IF r.title = None THEN state.query ELSE Val(r.title),
                            r.content, r.score) ]
      [] outcome.kind = "str" -> << SearchResult("", state.query, "raw", 0) >>
      [] outcome.kind = "raise" -> << >>
      [] OTHER -> << >>

ExplorerResults(state, outcome) ==
    CASE outcome.kind = "list" ->
           [ i \in 1..Len(outcome.items) |->
               LET r == outcome.items[i] IN
               SearchResult(r.url, IF r.title = None THEN state.query ELSE Val(r.title),
                            r.content, r.score) ]
      [] outcome.kind = "str" -> << SearchResult("", state.query, "raw", 0) >>
      [] outcome.kind = "raise" -> << SearchResult("", state.query, "Search error", 0) >>
      [] OTHER -> << >>

\* route_to_explorers: one Send("explorer", ...) per instruction
RouteToExplorers(instructions) ==
    [ i \in 1..Len(instructions) |->
        [ state |-> [ query |-> instructions[i].query,
                      search_focus |-> instructions[i].search_focus,
                      context |-> instructions[i].context,
                      search_results |-> << >> ],
          done |-> FALSE,
          outcome |-> None,
          results |-> << >> ] ]

\* review_node after interrupt() returned user_response
ReviewAction(user_response) ==
    IF user_response.kind = "dict" /\ user_response.action # None
    THEN Val(user_response.action) ELSE "approve"

ReviewResultReplace(state, user_response) ==
    LET action == ReviewAction(user_response) IN
    IF action = "edit" /\ user_response.kind = "dict"
       /\ state.report # None /\ user_response.edits # None
    THEN [ state EXCEPT
             !.report = Some(Report(Val(user_response.edits), "")),
             !.status = "approved" ]
    ELSE IF action = "redo" THEN [ state EXCEPT !.status = "redo" ]
    ELSE [ state EXCEPT !.status = "approved" ]

ReviewResult(state, user_response) ==
    LET action == ReviewAction(user_response) IN
    IF action = "edit" /\ user_response.kind = "dict"
       /\ state.report # None /\ user_response.edits # None
    THEN [ state EXCEPT
             !.report = Some([ Val(state.report) EXCEPT !.title = Val(user_response.edits) ]),
             !.status = "approved" ]
    ELSE IF action = "redo" THEN [ state EXCEPT !.status = "redo" ]
    ELSE [ state EXCEPT !.status = "approved" ]

ShouldContinueReview(state) == IF state.status = "redo" THEN "orchestrate" ELSE "end"

-----------------------------------------------------------------------------
(* The parent graph: helpers of its nodes *)

Args(t, d, i) == [ topic |-> t, depth |-> d, report_index |-> i ]

NoArgs == Args(None, None, None)

\* dict.get(key, default) on an argument that may be absent
Get(opt, default) == IF opt = None THEN default ELSE Val(opt)

IdPool == << "tc1", "tc2", "tc3", "tc4", "tc5", "tc6", "tc7", "tc8", "tc9", "tc10",
             "tc11", "tc12" >>

\* What the reasoning model may answer in one turn: the tool calls it asks for
AgentReplies ==
    IF Detailed
    THEN { << >>,
           << [ name |-> "deep_research", args |-> Args(Some("T1"), Some("quick"), None) ] >> }
    ELSE
    { << >>,
      << [ name |-> "calculator", args |-> NoArgs ] >>,
      << [ name |-> "create_plan", args |-> NoArgs ] >>,
      << [ name |-> "deep_research", args |-> Args(Some("T1"), Some("quick"), None) ] >>,
      << [ name |-> "deep_research", args |-> NoArgs ] >>,
      << [ name |-> "save_report", args |-> Args(None, None, Some(0)) ] >>,
      << [ name |-> "calculator", args |-> NoArgs ],
         [ name |-> "deep_research", args |-> Args(Some("T1"), None, None) ] >>,
      << [ name |-> "deep_research", args |-> Args(Some("T1"), Some("quick"), None) ],
         [ name |-> "save_report", args |-> NoArgs ] >> }

\* the tool calls of a reply, with fresh ids
WithIds(reply, first) ==
    [ i \in 1..Len(reply) |-> ToolCall(reply[i].name, IdPool[first + i - 1], reply[i].args) ]

\* for tc in m.tool_calls: if tc["name"] == name: ...; break
CallsNamed(m, name) ==
    { i \in 1..Len(m.tool_calls) : m.tool_calls[i].name = name }

FirstCall(m, name) ==
    LET is == CallsNamed(m, name) IN
    IF is = { } THEN None
    ELSE Some(m.tool_calls[CHOOSE i \in is : \A j \in is : i <= j])

\* for msg in reversed(messages): the id of the first call of that name in the
\* latest message that has one, "" when there is none
LastCallId(msgs, name) ==
    LET is == { i \in 1..Len(msgs) : FirstCall(msgs[i], name) # None } IN
    IF is = { } THEN ""
    ELSE Val(FirstCall(msgs[CHOOSE i \in is : \A j \in is : j <= i], name)).id

LastMessage(msgs) == IF msgs = << >> THEN None ELSE Some(msgs[Len(msgs)])

\* a lookup that searches for the research call whatever name it is given
CallIdInLastCopyPaste(msgs, name) ==
    IF LastMessage(msgs) = None
         \/ FirstCall(Val(LastMessage(msgs)), "deep_research") = None
    THEN ""
    ELSE Val(FirstCall(Val(LastMessage(msgs)), "deep_research")).id

\* the id of the call of that name in the last message, "" when there is none
CallIdInLast(msgs, name) ==
    IF LastMessage(msgs) = None \/ FirstCall(Val(LastMessage(msgs)), name) = None
    THEN ""
    ELSE Val(FirstCall(Val(LastMessage(msgs)), name)).id

\* save_confirm_node: report_index of the save_report call, 0 by default
ReportIndex(msgs) ==
    IF LastMessage(msgs) = None \/ FirstCall(Val(LastMessage(msgs)), "save_report") = None
    THEN 0
    ELSE Get(Val(FirstCall(Val(LastMessage(msgs)), "save_report")).args.report_index, 0)

\* list[k] of Python: k counts from the front when it is not negative, from
\* the back when it is, and is in range from -len(list) to len(list) - 1
IndexInRange(list, k) == -Len(list) <= k /\ k < Len(list)

PyItem(list, k) == IF k >= 0 THEN list[k + 1] ELSE list[Len(list) + k + 1]

\* idx = min(report_index, len(reports) - 1); report = reports[-(idx + 1)]
SelectionRaises(reports, report_index) ==
    LET idx == Min(report_index, Len(reports) - 1) IN
    ~ IndexInRange(reports, -(idx + 1))

SelectedReport(reports, report_index) ==
    LET idx == Min(report_index, Len(reports) - 1) IN PyItem(reports, -(idx + 1))

SaveActionDefaultSave(user_response) ==
    IF user_response.kind = "dict" THEN Get(user_response.action, "save")
    ELSE IF user_response.kind = "str" THEN Val(user_response.action)
    ELSE "list"

\* save_confirm_node after interrupt() returned user_response
SaveAction(user_response) ==
    IF user_response.kind = "dict" THEN Get(user_response.action, "cancel")
    ELSE IF user_response.kind = "str" THEN Val(user_response.action)
    ELSE "list"

ShouldContinueAfterSaveConfirm(pending) == IF pending # None THEN "save_to_db" ELSE "agent"

ShouldRunResearch(t) == IF t # "" THEN "deep_research" ELSE "agent"

-----------------------------------------------------------------------------
\* The server-sent events of _stream_graph.  An event has its name and, by
\* kind, the node and status of a node/status event, the message of a
\* messages event, or the payload of an interrupt event.

GRAPH_NODES ==
    { "retrieve", "agent", "tools", "prepare_research", "deep_research",
      "process_research_result", "save_confirm", "save_to_db" }

SSE(event, node, status, subgraph, message, payload) ==
    [ event |-> event, node |-> node, status |-> status, subgraph |-> subgraph,
      message |-> message, payload |-> payload ]

MetadataEvent == SSE("metadata", "", "", FALSE, None, None)

GraphStatus(status) == SSE("node/status", "__graph__", status, FALSE, None, None)

\* on_chain_start / on_chain_end of a node: nodes outside GRAPH_NODES are
\* marked as subgraph nodes
NodeStatus(node, status) ==
    SSE("node/status", node, status, node \notin GRAPH_NODES, None, None)

PartialEvent(m) == SSE("messages/partial", "", "", FALSE, Some(m), None)

CompleteEvent(m) == SSE("messages/complete", "", "", FALSE, Some(m), None)

InterruptEvent(payload) == SSE("interrupt", "", "", FALSE, None, Some(payload))

ErrorEvent == SSE("error", "", "", FALSE, None, None)

EndEvent == SSE("end", "", "", FALSE, None, None)

\* pending_tool_calls = {}
NoPending == [ n \in AllTools |-> << >> ]

\* the two events sent before the graph is started
StreamStart ==
    [ events |-> << MetadataEvent, GraphStatus("started") >>,
      pending_tool_calls |-> NoPending ]

\* a node that ran to its end
NodeEvents(node, inner) ==
    << NodeStatus(node, "active") >> \o inner \o << NodeStatus(node, "completed") >>

\* a node that raised, an interrupt or an exception: no on_chain_end
NodeStarted(node) == << NodeStatus(node, "active") >>

Emit(evs) == stream' = [ stream EXCEPT !.events = @ \o evs ]

\* on_chat_model_stream and on_chat_model_end of the agent node for the
\* assistant message m: the text of an answer is streamed, a message with
\* tool calls has no text; the ids of its calls are queued by tool name
AgentStream(st, m) ==
    [ events |-> st.events \o
                 NodeEvents("agent",
                     (IF m.tool_calls = << >> THEN << PartialEvent(m) >> ELSE << >>)
                     \o << CompleteEvent(m) >>),
      pending_tool_calls |->
          [ n \in AllTools |->
              LET named == SelectSeq(m.tool_calls, LAMBDA tc : tc.name = n) IN
              st.pending_tool_calls[n] \o [ i \in 1..Len(named) |-> named[i].id ] ] ]

\* on_tool_end of the calls from the i-th on, given the tool messages the
\* tools node appended: a tool that raised has no on_tool_end (its message
\* is made by ToolNode), an event whose name has no queued id is skipped,
\* otherwise the first queued id of that name is taken for the event
RECURSIVE ToolEnds(_, _, _, _)
ToolEnds(st, calls, results, i) ==
    IF i > Len(calls) THEN st
    ELSE LET name == calls[i].name
             queue == st.pending_tool_calls[name]
         IN IF (results[i].content.tag = "error" /\ name \in UncaughtTools)
                \/ queue = << >>
            THEN ToolEnds(st, calls, results, i + 1)
            ELSE ToolEnds(
                   [ events |-> Append(st.events,
                         CompleteEvent(ToolMessage(results[i].content, Head(queue), name))),
                     pending_tool_calls |->
                         [ st.pending_tool_calls EXCEPT ![name] = Tail(queue) ] ],
                   calls, results, i + 1)

\* the events of the tools node for the calls of the last assistant message
ToolsStream(st, calls, results) ==
    LET started == [ st EXCEPT !.events = Append(@, NodeStatus("tools", "active")) ]
        ended == ToolEnds(started, calls, results, 1)
    IN [ ended EXCEPT !.events = Append(@, NodeStatus("tools", "completed")) ]

\* the events of the node that a resume re-executes, and of the sub-pipeline
\* when that node ends it
ResumeEvents(hitl_type, returned) ==
    CASE hitl_type = "checkbox" ->
             NodeStarted("deep_research") \o NodeEvents("clarify", << >>)
      [] hitl_type = "review" ->
             NodeStarted("deep_research") \o NodeEvents("review", << >>)
             \o (IF returned THEN << NodeStatus("deep_research", "completed") >> ELSE << >>)
      [] hitl_type = "confirm" -> NodeEvents("save_confirm", << >>)

-----------------------------------------------------------------------------
(* State groups *)

parentVars == << messages, research_reports, pending_save, topic, depth, report >>
subVars == << sub, subpc, tasks, redos >>
reqVars == << run, runs, last_req, retried, scope >>
fnVars == << fin, fout >>

InitScope(s) ==
    /\ scope = s
    /\ messages = << >>
    /\ research_reports = << >>
    /\ pending_save = None
    /\ topic = ""
    /\ depth = ""
    /\ report = None
    /\ pc = "end"
    /\ sub = NoResearch
    /\ subpc = "none"
    /\ tasks = << >>
    /\ interrupt = None
    /\ resume_value = None
    /\ run = "idle"
    /\ db_reports = << >>
    /\ next_id = 1
    /\ turns = 0
    /\ redos = 0
    /\ runs = 0
    /\ last_req = None
    /\ retried = FALSE
    /\ fin = None
    /\ fout = None
    /\ stream = [ events |-> << >>, pending_tool_calls |-> NoPending ]

Init == InitScope("thread")

TurnLimit == IF Detailed THEN ResearchTurns ELSE MaxTurns

\* Redo rounds are explored in the scope "research"
RedoLimit == IF Detailed THEN MaxRedo ELSE 0

\* A node may execute: a request is being served and no interrupt is pending.
Active == run \in { "stream", "resume" } /\ interrupt = None

-----------------------------------------------------------------------------
(* The endpoints *)

\* stream_run: a new human message starts a run of the thread at START.
\* The caller starts no run while the thread is suspended.
StreamRun ==
    /\ resume_value' = None
    /\ run = "idle"
    /\ interrupt = None
    /\ runs < MaxRuns
    /\ messages' = Append(messages, HumanMessage(Content("human", NULL)))
    /\ pc' = "retrieve"
    /\ run' = "stream"
    /\ runs' = runs + 1
    /\ last_req' = None
    /\ retried' = FALSE
    /\ UNCHANGED << research_reports, pending_save, topic, depth, report, subVars,
                    interrupt, db_reports, next_id, turns, scope,
                    fnVars >>
    /\ stream' = StreamStart

\* _stream_graph after the event loop: the graph stopped at END or at an
\* interrupt; a pending_save found in the state is written to the database.
\* a stream tail that does not look for pending interrupts
FinishStreamWithoutInterrupt ==
    /\ resume_value' = None
    /\ run \in { "stream", "resume" }
    /\ pc = "end" \/ interrupt # None
    /\ db_reports' = IF pending_save # None
                     THEN Append(db_reports, Val(pending_save))
                     ELSE db_reports
    /\ run' = "idle"
    /\ retried' = FALSE
    /\ UNCHANGED << parentVars, pc, subVars, interrupt, next_id, turns, runs,
                    last_req, scope, fnVars >>
    /\ Emit(<< GraphStatus("finished"), EndEvent >>)

\* a stream tail that also persists the report of a finished research
FinishStreamPersistsResearch ==
    /\ resume_value' = None
    /\ run \in { "stream", "resume" }
    /\ pc = "end" \/ interrupt # None
    /\ db_reports' = IF pending_save # None
                     THEN Append(db_reports, Val(pending_save))
                     ELSE IF report # None /\ Len(db_reports) < MaxRows
                          THEN Append(db_reports, Val(report))
                          ELSE db_reports
    /\ run' = "idle"
    /\ retried' = FALSE
    /\ UNCHANGED << parentVars, pc, subVars, interrupt, next_id, turns, runs,
                    last_req, scope, fnVars >>
    /\ Emit((IF interrupt # None THEN << InterruptEvent(Val(interrupt)) >> ELSE << >>)
            \o << GraphStatus("finished"), EndEvent >>)

FinishStream ==
    /\ resume_value' = None
    /\ run \in { "stream", "resume" }
    /\ pc = "end" \/ interrupt # None
    /\ db_reports' = IF pending_save # None
                     THEN Append(db_reports, Val(pending_save))
                     ELSE db_reports
    /\ run' = "idle"
    /\ retried' = FALSE
    /\ UNCHANGED << parentVars, pc, subVars, interrupt, next_id, turns, runs,
                    last_req, scope, fnVars >>
    /\ Emit((IF interrupt # None THEN << InterruptEvent(Val(interrupt)) >> ELSE << >>)
            \o << GraphStatus("finished"), EndEvent >>)

-----------------------------------------------------------------------------
(* The nodes of the parent graph *)

\* a retrieve step that puts the context message in front of the history
RetrieveNodePrepends ==
    /\ resume_value' = None
    /\ Active
    /\ pc = "retrieve"
    /\ \E context \in BOOLEAN :
        messages' = IF context /\ (messages = << >> \/ messages[1].type # "system")
                    THEN << SystemMessage(Content("rag", NULL)) >> \o messages
                    ELSE messages
    /\ pc' = "agent"
    /\ UNCHANGED << research_reports, pending_save, topic, depth, report, subVars,
                    interrupt, reqVars, db_reports, next_id, turns,
                    fnVars >>
    /\ Emit(NodeEvents("retrieve", << >>))

RetrieveNode ==
    /\ resume_value' = None
    /\ Active
    /\ pc = "retrieve"
    /\ \E context \in BOOLEAN :
        messages' = IF context /\ (messages = << >> \/ messages[1].type # "system")
                    THEN Append(messages, SystemMessage(Content("rag", NULL)))
                    ELSE messages
    /\ pc' = "agent"
    /\ UNCHANGED << research_reports, pending_save, topic, depth, report, subVars,
                    interrupt, reqVars, db_reports, next_id, turns,
                    fnVars >>
    /\ Emit(NodeEvents("retrieve", << >>))

\* an agent step that also stores the system prompt it built for the call
AgentNodeWritesPrompt ==
    /\ resume_value' = None
    /\ Active
    /\ pc = "agent"
    /\ \E reply \in AgentReplies :
        /\ reply = << >> \/ turns < TurnLimit
        /\ messages' = (IF \E i \in 1..Len(messages) : messages[i].type = "system"
                        THEN messages
                        ELSE Append(messages, SystemMessage(Content("prompt", NULL))))
                       \o << AIMessage(Content("ai", NULL), WithIds(reply, next_id)) >>
        /\ next_id' = next_id + Len(reply)
        /\ turns' = IF reply = << >> THEN turns ELSE turns + 1
    /\ pc' = AgentBranch(ShouldContinue(messages'))
    /\ UNCHANGED << research_reports, pending_save, topic, depth, report, subVars,
                    interrupt, reqVars, db_reports, fnVars >>
    /\ stream' = AgentStream(stream, messages'[Len(messages')])

AgentNode ==
    /\ resume_value' = None
    /\ Active
    /\ pc = "agent"
    /\ \E reply \in AgentReplies :
        /\ reply = << >> \/ turns < TurnLimit
        /\ messages' = Append(messages,
                              AIMessage(Content("ai", NULL), WithIds(reply, next_id)))
        /\ next_id' = next_id + Len(reply)
        /\ turns' = IF reply = << >> THEN turns ELSE turns + 1
    /\ pc' = AgentBranch(ShouldContinue(messages'))
    /\ UNCHANGED << research_reports, pending_save, topic, depth, report, subVars,
                    interrupt, reqVars, db_reports, fnVars >>
    /\ stream' = AgentStream(stream, messages'[Len(messages')])

\* ToolNode(SIMPLE_TOOLS): one tool message per call of the last message
\* a tools node whose failing step leaves the results it had so far
ToolsNodePartialWrite ==
    /\ resume_value' = None
    /\ Active
    /\ pc = "tools"
    /\ LET calls == messages[Len(messages)].tool_calls IN
       \/ /\ \E ok \in BOOLEAN :
                messages' = messages \o
                    [ i \in 1..Len(calls) |->
                        ToolMessage(Content(IF ok THEN "result" ELSE "error", NULL),
                                    calls[i].id, calls[i].name) ]
          /\ pc' = "agent"
          /\ run' = run
       \/ /\ \E i \in 1..Len(calls) : calls[i].name \in UncaughtTools
          /\ run' = "failed"
          /\ messages' = Append(messages,
                 ToolMessage(Content("error", NULL), calls[1].id, calls[1].name))
          /\ UNCHANGED pc
    /\ UNCHANGED << research_reports, pending_save, topic, depth, report, subVars,
                    interrupt, runs, last_req, retried, scope, db_reports, next_id,
                    turns, fnVars >>
    /\ IF run' = "failed"
       THEN Emit(NodeStarted("tools"))
       ELSE stream' = ToolsStream(stream, messages[Len(messages)].tool_calls,
                                  SubSeq(messages', Len(messages) + 1, Len(messages')))

\* ToolNode(tools=SIMPLE_TOOLS) with its default error handling.  Every call
\* of the message gets one tool message.  calculator and tavily_search turn
\* their own failures into an error text; create_plan has no handler, so its
\* failure reaches ToolNode, whose default either turns it into an error
\* message or lets it propagate, depending on the installed library: the run
\* then stops in the tools node and nothing is written.
ToolsNode ==
    /\ resume_value' = None
    /\ Active
    /\ pc = "tools"
    /\ LET calls == messages[Len(messages)].tool_calls IN
       \/ /\ \E ok \in BOOLEAN :
                messages' = messages \o
                    [ i \in 1..Len(calls) |->
                        ToolMessage(Content(IF ok THEN "result" ELSE "error", NULL),
                                    calls[i].id, calls[i].name) ]
          /\ pc' = "agent"
          /\ run' = run
       \/ /\ \E i \in 1..Len(calls) : calls[i].name \in UncaughtTools
          /\ run' = "failed"
          /\ UNCHANGED << messages, pc >>
    /\ UNCHANGED << research_reports, pending_save, topic, depth, report, subVars,
                    interrupt, runs, last_req, retried, scope, db_reports, next_id,
                    turns, fnVars >>
    /\ IF run' = "failed"
       THEN Emit(NodeStarted("tools"))
       ELSE stream' = ToolsStream(stream, messages[Len(messages)].tool_calls,
                                  SubSeq(messages', Len(messages) + 1, Len(messages')))

\* an except branch that only reports the error
FailStreamWithoutFinished ==
    /\ resume_value' = None
    /\ run = "failed"
    /\ run' = "idle"
    /\ retried' = FALSE
    /\ UNCHANGED << parentVars, pc, subVars, interrupt, db_reports, next_id, turns,
                    runs, last_req, scope, fnVars >>
    /\ Emit(<< ErrorEvent, EndEvent >>)

\* _stream_graph, the except branch: the error event and the end event are
\* sent and the request is over; the code that persists a staged report is
\* skipped.
FailStream ==
    /\ resume_value' = None
    /\ run = "failed"
    /\ run' = "idle"
    /\ retried' = FALSE
    /\ UNCHANGED << parentVars, pc, subVars, interrupt, db_reports, next_id, turns,
                    runs, last_req, scope, fnVars >>
    /\ Emit(<< GraphStatus("finished"), ErrorEvent, EndEvent >>)

PrepareResearchNodeKeepsTopic ==
    /\ resume_value' = None
    /\ Active
    /\ pc = "prepare_research"
    /\ LET call == IF LastMessage(messages) = None THEN None
                   ELSE FirstCall(Val(LastMessage(messages)), "deep_research")
           t == IF call = None THEN "" ELSE Get(Val(call).args.topic, "")
           d == IF call = None THEN "standard" ELSE Get(Val(call).args.depth, "standard")
           tool_call_id == IF call = None THEN "" ELSE Val(call).id
       IN IF t = ""
          THEN /\ messages' = Append(messages,
                      ToolMessage(Content("no_topic", NULL),
                                  IF tool_call_id # "" THEN tool_call_id ELSE "unknown",
                                  "deep_research"))
               /\ UNCHANGED << topic, depth >>
          ELSE /\ topic' = t
               /\ depth' = d
               /\ UNCHANGED messages
    /\ pc' = ShouldRunResearch(topic')
    /\ UNCHANGED << research_reports, pending_save, report, subVars, interrupt, reqVars, db_reports, next_id, turns, fnVars >>
    /\ Emit(NodeEvents("prepare_research", << >>))

PrepareResearchNode ==
    /\ resume_value' = None
    /\ Active
    /\ pc = "prepare_research"
    /\ LET call == IF LastMessage(messages) = None THEN None
                   ELSE FirstCall(Val(LastMessage(messages)), "deep_research")
           t == IF call = None THEN "" ELSE Get(Val(call).args.topic, "")
           d == IF call = None THEN "standard" ELSE Get(Val(call).args.depth, "standard")
           tool_call_id == IF call = None THEN "" ELSE Val(call).id
       IN IF t = ""
          THEN /\ messages' = Append(messages,
                      ToolMessage(Content("no_topic", NULL),
                                  IF tool_call_id # "" THEN tool_call_id ELSE "unknown",
                                  "deep_research"))
               /\ topic' = ""
               /\ depth' = "standard"
          ELSE /\ topic' = t
               /\ depth' = d
               /\ UNCHANGED messages
    /\ pc' = ShouldRunResearch(topic')
    /\ UNCHANGED << research_reports, pending_save, report, subVars, interrupt, reqVars, db_reports, next_id, turns, fnVars >>
    /\ Emit(NodeEvents("prepare_research", << >>))

ProcessResearchResultNodeAnswerOnly ==
    /\ resume_value' = None
    /\ Active
    /\ pc = "process_research_result"
    /\ LET tool_call_id == LastCallId(messages, "deep_research")
           content == IF report # None
                      THEN Content("research", Val(report).title)
                      ELSE Content("research_none", NULL)
       IN messages' = Append(messages, ToolMessage(content, tool_call_id, "deep_research"))
    /\ research_reports' = research_reports
    /\ pc' = "agent"
    /\ UNCHANGED << pending_save, topic, depth, report, subVars, interrupt, reqVars, db_reports, next_id, turns, fnVars >>
    /\ Emit(NodeEvents("process_research_result", << >>))

\* a result step whose research_reports is the last value written
ProcessResearchResultNodeOverwrites ==
    /\ resume_value' = None
    /\ Active
    /\ pc = "process_research_result"
    /\ LET tool_call_id == LastCallId(messages, "deep_research")
           content == IF report # None
                      THEN Content("research", Val(report).title)
                      ELSE Content("research_none", NULL)
       IN messages' = Append(messages, ToolMessage(content, tool_call_id, "deep_research"))
    /\ research_reports' = IF report # None
                           THEN << Val(report) >>
                           ELSE research_reports
    /\ pc' = "agent"
    /\ UNCHANGED << pending_save, topic, depth, report, subVars, interrupt, reqVars, db_reports, next_id, turns, fnVars >>
    /\ Emit(NodeEvents("process_research_result", << >>))

ProcessResearchResultNode ==
    /\ resume_value' = None
    /\ Active
    /\ pc = "process_research_result"
    /\ LET tool_call_id == LastCallId(messages, "deep_research")
           content == IF report # None
                      THEN Content("research", Val(report).title)
                      ELSE Content("research_none", NULL)
       IN messages' = Append(messages, ToolMessage(content, tool_call_id, "deep_research"))
    /\ research_reports' = IF report # None
                           THEN research_reports \o << Val(report) >>
                           ELSE research_reports
    /\ pc' = "agent"
    /\ UNCHANGED << pending_save, topic, depth, report, subVars, interrupt, reqVars, db_reports, next_id, turns, fnVars >>
    /\ Emit(NodeEvents("process_research_result", << >>))

SaveConfirmNodeToSaveToDb ==
    /\ resume_value' = None
    /\ Active
    /\ pc = "save_confirm"
    /\ IF research_reports = << >>
       THEN /\ messages' = Append(messages,
                   ToolMessage(Content("no_reports", NULL),
                               CallIdInLast(messages, "save_report"), "save_report"))
            /\ pending_save' = None
            /\ pc' = "save_to_db"
            /\ UNCHANGED interrupt
       ELSE /\ interrupt' = Some(HITLPayload("confirm", "Save Research Report",
                   << "Do you want to save this research report to the database?" >>,
                   SaveOptions,
                   Some(SelectedReport(research_reports, ReportIndex(messages)))))
            /\ UNCHANGED << messages, pending_save, pc >>
    /\ UNCHANGED << research_reports, topic, depth, report, subVars, reqVars,
                    db_reports, next_id, turns, fnVars >>
    /\ Emit(IF interrupt' # None THEN NodeStarted("save_confirm")
            ELSE NodeEvents("save_confirm", << >>))

\* save_confirm_node up to interrupt(): without reports it answers at once,
\* otherwise it suspends with the selected report.
SaveConfirmNode ==
    /\ resume_value' = None
    /\ Active
    /\ pc = "save_confirm"
    /\ IF research_reports = << >>
       THEN /\ messages' = Append(messages,
                   ToolMessage(Content("no_reports", NULL),
                               CallIdInLast(messages, "save_report"), "save_report"))
            /\ pending_save' = None
            /\ pc' = ShouldContinueAfterSaveConfirm(pending_save')
            /\ UNCHANGED interrupt
       ELSE /\ interrupt' = Some(HITLPayload("confirm", "Save Research Report",
                   << "Do you want to save this research report to the database?" >>,
                   SaveOptions,
                   Some(SelectedReport(research_reports, ReportIndex(messages)))))
            /\ UNCHANGED << messages, pending_save, pc >>
    /\ UNCHANGED << research_reports, topic, depth, report, subVars, reqVars,
                    db_reports, next_id, turns, fnVars >>
    /\ Emit(IF interrupt' # None THEN NodeStarted("save_confirm")
            ELSE NodeEvents("save_confirm", << >>))

\* save_confirm_node re-executed with interrupt() returning user_response
SaveConfirmResume(user_response) ==
    /\ LET rep == SelectedReport(research_reports, ReportIndex(messages)) IN
       IF SaveAction(user_response) = "save"
       THEN /\ pending_save' = Some(rep)
            /\ UNCHANGED messages
       ELSE /\ pending_save' = None
            /\ messages' = Append(messages,
                   ToolMessage(Content("cancelled", NULL),
                               CallIdInLast(messages, "save_report"), "save_report"))
    /\ pc' = ShouldContinueAfterSaveConfirm(pending_save')
    /\ UNCHANGED << research_reports, topic, depth, report, subVars >>

SaveToDbNode ==
    /\ resume_value' = None
    /\ Active
    /\ pc = "save_to_db"
    /\ LET tool_call_id == LastCallId(messages, "save_report") IN
       IF pending_save = None
       THEN /\ messages' = Append(messages,
                   ToolMessage(Content("no_report_to_save", NULL), tool_call_id,
                               "save_report"))
            /\ pending_save' = None
       ELSE /\ messages' = Append(messages,
                   ToolMessage(Content("saved", Val(pending_save).title), tool_call_id,
                               "save_report"))
            /\ UNCHANGED pending_save
    /\ pc' = "agent"
    /\ UNCHANGED << research_reports, topic, depth, report, subVars, interrupt, reqVars, db_reports, next_id, turns, fnVars >>
    /\ Emit(NodeEvents("save_to_db", << >>))

-----------------------------------------------------------------------------
(* The deep_research node: the compiled research subgraph *)

\* The subgraph reached END: its output schema (report) is written to the
\* parent, when the subgraph set it, and the edge to process_research_result
\* is taken. The subgraph's state is dropped.
ReturnToParentAtPrepare(final) ==
    /\ report' = IF final.report # None THEN final.report ELSE report
    /\ pc' = "prepare_research"
    /\ sub' = NoResearch
    /\ subpc' = "none"
    /\ tasks' = << >>
    /\ redos' = 0

ReturnToParent(final) ==
    /\ report' = IF final.report # None THEN final.report ELSE report
    /\ pc' = "process_research_result"
    /\ sub' = NoResearch
    /\ subpc' = "none"
    /\ tasks' = << >>
    /\ redos' = 0

\* The parent enters the subgraph with its input schema (topic, depth).
EnterResearch ==
    /\ resume_value' = None
    /\ Active
    /\ pc = "deep_research"
    /\ subpc = "none"
    /\ sub' = FreshResearch(topic, depth)
    /\ subpc' = "clarify"
    /\ UNCHANGED << parentVars, pc, tasks, redos, interrupt, reqVars,
                    db_reports, next_id, turns, fnVars >>
    /\ Emit(NodeStarted("deep_research"))

\* clarify_node up to interrupt(): the reasoning model suggests sub-topics
\* and the node suspends with the checklist.
ClarifyNodeNoHalt ==
    /\ resume_value' = None
    /\ Active
    /\ pc = "deep_research"
    /\ subpc = "clarify"
    /\ \E subtopics \in CandidateLists :
        /\ interrupt' = Some(HITLPayload("checkbox", "Select Research Topics",
                   << "The following sub-topics were identified for", sub.topic,
                      "Select the ones you'd like to research:" >>,
                   ClarifyOptions(subtopics), None))
        /\ sub' = [ sub EXCEPT !.clarified_topics = subtopics, !.status = "clarified" ]
    /\ subpc' = "orchestrate"
    /\ UNCHANGED << parentVars, pc, tasks, redos, reqVars, db_reports, next_id, turns,
                    fnVars >>
    /\ Emit(NodeEvents("clarify", << >>))

ClarifyNode ==
    /\ resume_value' = None
    /\ Active
    /\ pc = "deep_research"
    /\ subpc = "clarify"
    /\ \E subtopics \in CandidateLists :
        interrupt' = Some(HITLPayload("checkbox", "Select Research Topics",
                   << "The following sub-topics were identified for", sub.topic,
                      "Select the ones you'd like to research:" >>,
                   ClarifyOptions(subtopics), None))
    /\ UNCHANGED << parentVars, pc, subVars, reqVars, db_reports, next_id, turns,
                    fnVars >>
    /\ Emit(NodeStarted("clarify"))

\* clarify_node re-executed with interrupt() returning user_response: it runs
\* from its first line, so the reasoning model is asked for sub-topics again.
ClarifyResume(user_response) ==
    /\ \E subtopics \in CandidateLists :
        sub' = [ sub EXCEPT
                   !.clarified_topics =
                       ClarifySelection(subtopics, ClarifyOptions(subtopics), user_response),
                   !.status = "clarified" ]
    /\ subpc' = "orchestrate"
    /\ UNCHANGED << parentVars, pc, tasks, redos >>

\* orchestrate_node, then the conditional edge route_to_explorers; with no
\* Send the subgraph has no task left and ends.
OrchestrateNode ==
    /\ resume_value' = None
    /\ Active
    /\ pc = "deep_research"
    /\ subpc = "orchestrate"
    /\ \E k \in InstrCounts :
        LET res == OrchestrateResult(sub.clarified_topics, sub.depth, Returned(k))
            st == [ sub EXCEPT !.explorer_instructions = res.explorer_instructions,
                               !.status = res.status ]
            sends == RouteToExplorers(st.explorer_instructions)
        IN IF sends = << >>
           THEN ReturnToParent(st)
           ELSE /\ sub' = st
                /\ subpc' = "explorer"
                /\ tasks' = sends
                /\ UNCHANGED << report, pc, redos >>
    /\ UNCHANGED << messages, research_reports, pending_save, topic, depth,
                    interrupt, reqVars, db_reports, next_id, turns,
                    fnVars >>
    /\ Emit(NodeEvents("orchestrate", << >>)
            \o (IF pc' = "process_research_result"
                THEN << NodeStatus("deep_research", "completed") >> ELSE << >>))

\* operator.add on search_results: the writes of the superstep's tasks are
\* applied in task order once all of them have finished
MergeResultsLastWins(current, ts) == ts[Len(ts)].results

MergeResults(current, ts) ==
    current \o Flatten([ i \in 1..Len(ts) |-> ts[i].results ])

\* One explorer task finishes; the superstep ends with the last of them.
ExplorerNode ==
    /\ resume_value' = None
    /\ Active
    /\ pc = "deep_research"
    /\ subpc = "explorer"
    /\ \E i \in 1..Len(tasks), outcome \in SearchOutcomes :
        /\ ~ tasks[i].done
        /\ LET ts == [ tasks EXCEPT ![i].done = TRUE,
                                    ![i].outcome = Some(outcome),
                                    ![i].results = ExplorerResults(tasks[i].state, outcome) ]
           IN /\ tasks' = ts
              /\ IF \A j \in 1..Len(ts) : ts[j].done
                 THEN /\ sub' = [ sub EXCEPT
                                    !.search_results = MergeResults(sub.search_results, ts) ]
                      /\ subpc' = "synthesize"
                 ELSE UNCHANGED << sub, subpc >>
    /\ UNCHANGED << parentVars, pc, redos, interrupt, reqVars,
                    db_reports, next_id, turns, fnVars >>
    /\ Emit(NodeEvents("explorer", << >>))

SynthesizeNode ==
    /\ resume_value' = None
    /\ Active
    /\ pc = "deep_research"
    /\ subpc = "synthesize"
    /\ \E title \in ReportTitles :
        sub' = [ sub EXCEPT !.report = Some(Report(title, "S")),
                            !.status = "synthesized" ]
    /\ subpc' = "review"
    /\ UNCHANGED << parentVars, pc, tasks, redos, interrupt, reqVars,
                    db_reports, next_id, turns, fnVars >>
    /\ Emit(NodeEvents("synthesize", << >>))

\* review_node up to interrupt()
ReviewNode ==
    /\ resume_value' = None
    /\ Active
    /\ pc = "deep_research"
    /\ subpc = "review"
    /\ interrupt' = Some(HITLPayload("review", "Review Research Report",
                   << "Please review the research report below. You can approve it, edit it, or request a redo." >>,
                   ReviewOptions, sub.report))
    /\ UNCHANGED << parentVars, pc, subVars, reqVars, db_reports, next_id, turns,
                    fnVars >>
    /\ Emit(NodeStarted("review"))

ReviewResumeToClarify(user_response) ==
    /\ LET st == ReviewResult(sub, user_response) IN
       IF ShouldContinueReview(st) = "orchestrate"
       THEN /\ sub' = st
            /\ subpc' = "clarify"
            /\ redos' = redos + 1
            /\ UNCHANGED << report, pc, tasks >>
       ELSE ReturnToParent(st)
    /\ UNCHANGED << messages, research_reports, pending_save, topic, depth >>

\* review_node re-executed with interrupt() returning user_response, then the
\* conditional edge should_continue_review
ReviewResume(user_response) ==
    /\ LET st == ReviewResult(sub, user_response) IN
       IF ShouldContinueReview(st) = "orchestrate"
       THEN /\ sub' = st
            /\ subpc' = "orchestrate"
            /\ redos' = redos + 1
            /\ UNCHANGED << report, pc, tasks >>
       ELSE ReturnToParent(st)
    /\ UNCHANGED << messages, research_reports, pending_save, topic, depth >>

-----------------------------------------------------------------------------
(* The resume endpoint *)

\* resume_run: Command(resume=resume_value) on the thread's checkpoint. The
\* interrupted node is executed again and its interrupt() returns the value;
\* with no interrupt pending the graph has no task to run. In scope "retry"
\* the request is remembered, to recognise its repetition.
ResumeRun ==
    \E v \in ResumeValues :
        /\ run = "idle"
        /\ interrupt # None \/ Len(db_reports) < MaxRows
        /\ ~ ( /\ interrupt # None
               /\ Val(interrupt).hitl_type = "review"
               /\ ReviewAction(v) = "redo"
               /\ redos >= RedoLimit )
        /\ run' = "resume"
        /\ runs' = runs
        /\ retried' = (scope = "retry" /\ last_req = Some(v))
        /\ last_req' = IF scope = "retry" THEN Some(v) ELSE None
        /\ interrupt' = None
        /\ resume_value' = Some(v)
        /\ IF interrupt = None
           THEN UNCHANGED << parentVars, pc, subVars >>
           ELSE CASE Val(interrupt).hitl_type = "checkbox" -> ClarifyResume(v)
                  [] Val(interrupt).hitl_type = "review" -> ReviewResume(v)
                  [] Val(interrupt).hitl_type = "confirm" -> SaveConfirmResume(v)
        /\ UNCHANGED << db_reports, next_id, turns, scope, fnVars >>
        /\ stream' = [ StreamStart EXCEPT !.events =
                         @ \o (IF interrupt = None THEN << >>
                               ELSE ResumeEvents(Val(interrupt).hitl_type,
                                                 pc' = "process_research_result")) ]

-----------------------------------------------------------------------------
(* The thread: requests and graph steps *)

Step ==
    \/ RetrieveNode
    \/ AgentNode
    \/ ToolsNode
    \/ PrepareResearchNode
    \/ EnterResearch
    \/ ClarifyNode
    \/ OrchestrateNode
    \/ ExplorerNode
    \/ SynthesizeNode
    \/ ReviewNode
    \/ ProcessResearchResultNode
    \/ SaveConfirmNode
    \/ SaveToDbNode
    \/ FinishStream
    \/ FailStream

Next == StreamRun \/ ResumeRun \/ Step

Spec == Init /\ [][Next]_vars

\* The same thread, with resume requests remembered
SpecRetry == InitScope("retry") /\ [][Next]_vars

\* One research invocation in detail
ResearchStep ==
    \/ RetrieveNode
    \/ AgentNode
    \/ PrepareResearchNode
    \/ EnterResearch
    \/ ClarifyNode
    \/ OrchestrateNode
    \/ ExplorerNode
    \/ SynthesizeNode
    \/ ReviewNode
    \/ ProcessResearchResultNode
    \/ FinishStream

NextResearch == StreamRun \/ ResumeRun \/ ResearchStep

SpecResearch == InitScope("research") /\ [][NextResearch]_vars

-----------------------------------------------------------------------------
(* Function specifications: should_continue and orchestrate_node on inputs *)
(* drawn from bounded sets                                                 *)

RECURSIVE SeqsUpTo(_, _)
\* the sequences over S of length at most n
SeqsUpTo(S, n) ==
    IF n = 0 THEN { << >> }
    ELSE LET shorter == SeqsUpTo(S, n - 1) IN
         shorter \cup { Append(q, x) : q \in shorter, x \in S }

\* should_continue on a state whose last message is an assistant message with
\* the given calls, or a message of another type
RouteTurn ==
    /\ resume_value' = None
    /\ \E m \in { AIMessage(Content("ai", NULL),
                            [ i \in 1..Len(names) |-> ToolCall(names[i], IdPool[i], NoArgs) ])
                  : names \in SeqsUpTo(AllTools, MaxCalls) }
               \cup { HumanMessage(Content("human", NULL)),
                      ToolMessage(Content("result", NULL), IdPool[1], "calculator") } :
        LET msgs == << HumanMessage(Content("human", NULL)), m >> IN
        /\ fin' = Some(m)
        /\ fout' = Some([ route |-> ShouldContinue(msgs),
                          node |-> AgentBranch(ShouldContinue(msgs)) ])
    /\ UNCHANGED << parentVars, pc, subVars, interrupt, reqVars, db_reports, next_id,
                    turns >>
    /\ UNCHANGED stream

SpecRouting == InitScope("function") /\ [][RouteTurn]_vars

Depths == { "quick", "standard", "deep", "thorough" }

\* orchestrate_node on clarified topics, a depth and the instruction list the
\* reasoning model returned
OrchestrateCall ==
    /\ resume_value' = None
    /\ \E n \in 0..MaxTopicCount, d \in Depths, k \in 0..MaxReturned :
        LET topics == [ i \in 1..n |-> TopicPool[i] ] IN
        /\ fin' = Some([ clarified_topics |-> topics, depth |-> d, returned |-> k ])
        /\ fout' = Some(OrchestrateResult(topics, d, Returned(k)))
    /\ UNCHANGED << parentVars, pc, subVars, interrupt, reqVars, db_reports, next_id,
                    turns >>
    /\ UNCHANGED stream

SpecOrchestrate == InitScope("function") /\ [][OrchestrateCall]_vars

\* save_confirm_node's choice of the report on a non-empty research_reports and a
\* report_index taken from the arguments of the save_report call
SelectCall ==
    /\ resume_value' = None
    /\ \E titles \in SeqsUpTo(ReportTitles, MaxReports) \ { << >> },
          i \in -MaxIndex..MaxIndex :
        LET reports == [ k \in 1..Len(titles) |-> Report(titles[k], "S") ] IN
        /\ fin' = Some([ research_reports |-> reports, report_index |-> i ])
        /\ fout' = Some(IF SelectionRaises(reports, i)
                        THEN [ raised |-> TRUE, report |-> None ]
                        ELSE [ raised |-> FALSE,
                               report |-> Some(SelectedReport(reports, i)) ])
    /\ UNCHANGED << parentVars, pc, subVars, interrupt, reqVars, db_reports, next_id,
                    turns >>
    /\ UNCHANGED stream

SpecSelect == InitScope("function") /\ [][SelectCall]_vars

-----------------------------------------------------------------------------
\* The calculator tool as a function of its expression.  An expression is a
\* sequence of characters; the inputs are all sequences up to MaxExprLen over
\* ExprChars, which holds digits, two operators, the space and two characters
\* outside the whitelist.

\* allowed_chars = set("0123456789+-*/.(). ")
allowed_chars ==
    { "0", "1", "2", "3", "4", "5", "6", "7", "8", "9",
      "+", "-", "*", "/", ".", "(", ")", " " }

DigitChars == << "0", "1", "2", "3", "4", "5", "6", "7", "8", "9" >>

ExprChars == { "0", "1", "2", "+", "/", " ", "a", "_" }

DigitVal(ch) == CHOOSE k \in 0..9 : DigitChars[k + 1] = ch

RECURSIVE NumVal(_)
NumVal(ds) ==
    IF ds = << >> THEN 0
    ELSE 10 * NumVal(SubSeq(ds, 1, Len(ds) - 1)) + DigitVal(ds[Len(ds)])

Token(t, v, ok) == [ t |-> t, v |-> v, ok |-> ok ]

\* a decimal integer literal must not start with 0 unless it is all zeros
NumToken(ds) ==
    Token("num", NumVal(ds), ds[1] # "0" \/ \A i \in 1..Len(ds) : ds[i] = "0")

\* the last position of the run of digits that starts at i
RunEnd(e, i) ==
    CHOOSE j \in i..Len(e) :
        /\ \A k \in i..j : e[k] \in Range(DigitChars)
        /\ j = Len(e) \/ e[j + 1] \notin Range(DigitChars)

\* Python's tokens for the characters of ExprChars: spaces separate, digits
\* run together, two adjacent slashes are the floor division operator
RECURSIVE Tokenize(_, _)
Tokenize(e, i) ==
    IF i > Len(e) THEN << >>
    ELSE IF e[i] = " " THEN Tokenize(e, i + 1)
    ELSE IF e[i] \in Range(DigitChars)
         THEN << NumToken(SubSeq(e, i, RunEnd(e, i))) >> \o Tokenize(e, RunEnd(e, i) + 1)
    ELSE IF e[i] = "/" /\ i < Len(e) /\ e[i + 1] = "/"
         THEN << Token("//", 0, TRUE) >> \o Tokenize(e, i + 2)
    ELSE << Token(e[i], 0, TRUE) >> \o Tokenize(e, i + 1)

RECURSIVE Gcd(_, _)
Gcd(a, b) == IF b = 0 THEN a ELSE Gcd(b, a % b)

\* a number n/d in lowest terms, f tells a float from an int
Number(n, d, f) ==
    LET g == IF n = 0 THEN d ELSE Gcd(n, d) IN [ n |-> n \div g, d |-> d \div g, f |-> f ]

Parsed(v, pos, err) == [ v |-> v, pos |-> pos, err |-> err ]

\* a syntax error is found when the expression is compiled, before any
\* division is carried out
Worse(e1, e2) ==
    IF e1 = "SyntaxError" \/ e2 = "SyntaxError" THEN "SyntaxError"
    ELSE IF e1 # "" THEN e1 ELSE e2

\* factor: '+' factor | NUMBER
RECURSIVE ParseFactor(_, _)
ParseFactor(ts, p) ==
    IF p > Len(ts) THEN Parsed(Number(0, 1, FALSE), p, "SyntaxError")
    ELSE IF ts[p].t = "+" THEN ParseFactor(ts, p + 1)
    ELSE IF ts[p].t = "num"
         THEN Parsed(Number(ts[p].v, 1, FALSE), p + 1,
                     IF ts[p].ok THEN "" ELSE "SyntaxError")
    ELSE Parsed(Number(0, 1, FALSE), p, "SyntaxError")

\* left / right and left // right
Divide(op, l, r) ==
    IF r.v.n = 0 THEN Parsed(l.v, r.pos, Worse(l.err, Worse(r.err, "ZeroDivisionError")))
    ELSE IF op = "/"
         THEN Parsed(Number(l.v.n * r.v.d, l.v.d * r.v.n, TRUE), r.pos, Worse(l.err, r.err))
         ELSE Parsed(Number((l.v.n * r.v.d) \div (l.v.d * r.v.n), 1, l.v.f \/ r.v.f),
                     r.pos, Worse(l.err, r.err))

\* term: factor (('/' | '//') factor)*
RECURSIVE ParseTermRest(_, _)
ParseTermRest(ts, l) ==
    IF l.pos <= Len(ts) /\ ts[l.pos].t \in { "/", "//" }
    THEN ParseTermRest(ts, Divide(ts[l.pos].t, l, ParseFactor(ts, l.pos + 1)))
    ELSE l

ParseTerm(ts, p) == ParseTermRest(ts, ParseFactor(ts, p))

\* sum: term ('+' term)*
RECURSIVE ParseSumRest(_, _)
ParseSumRest(ts, l) ==
    IF l.pos <= Len(ts) /\ ts[l.pos].t = "+"
    THEN LET r == ParseTerm(ts, l.pos + 1) IN
         ParseSumRest(ts, Parsed(Number(l.v.n * r.v.d + r.v.n * l.v.d, l.v.d * r.v.d,
                                        l.v.f \/ r.v.f),
                                 r.pos, Worse(l.err, r.err)))
    ELSE l

\* eval(expression) for an expression over ExprChars: the value, or the
\* exception it raises
PyEval(e) ==
    LET ts == Tokenize(e, 1)
        r == ParseSumRest(ts, ParseTerm(ts, 1))
    IN IF r.pos <= Len(ts) \/ r.err = "SyntaxError"
       THEN [ exc |-> "SyntaxError", value |-> Number(0, 1, FALSE) ]
       ELSE [ exc |-> r.err, value |-> r.v ]

RECURSIVE IntStr(_)
IntStr(n) ==
    IF n < 10 THEN << DigitChars[n + 1] >>
    ELSE IntStr(n \div 10) \o << DigitChars[(n % 10) + 1] >>

\* the decimal digits of r/d behind the point, cut after k digits
RECURSIVE FracStr(_, _, _)
FracStr(r, d, k) ==
    IF k = 0 \/ r = 0 THEN << >>
    ELSE << DigitChars[((10 * r) \div d) + 1] >> \o FracStr((10 * r) % d, d, k - 1)

\* str(result): the digits of an int; for a float the integer part, a point
\* and the fraction digits, at least one (the expansion is cut at FloatDigits)
PyStr(v) ==
    IF ~ v.f THEN IntStr(v.n)
    ELSE IntStr(v.n \div v.d) \o << "." >>
         \o (IF v.n % v.d = 0 THEN << "0" >> ELSE FracStr(v.n % v.d, v.d, FloatDigits))

\* the classes that "except Exception" catches
ExceptionClasses == { "SyntaxError", "ZeroDivisionError" }

CalculatorResult(raised, evaluated, result) ==
    [ raised |-> raised, evaluated |-> evaluated, result |-> result ]

\* a calculator that hands every expression to eval
CalculatorNoWhitelist(expression) ==
    LET r == PyEval(expression) IN
    IF r.exc = "" THEN CalculatorResult(FALSE, TRUE, PyStr(r.value))
    ELSE IF r.exc \in ExceptionClasses
         THEN CalculatorResult(FALSE, TRUE, << "Error evaluating expression: ", r.exc >>)
    ELSE CalculatorResult(TRUE, TRUE, << >>)

\* calculator(expression): the whitelist test comes first and returns without
\* evaluating; the text of an error result is its fixed part followed by the
\* class of the exception
Calculator(expression) ==
    IF \E i \in 1..Len(expression) : expression[i] \notin allowed_chars
    THEN CalculatorResult(FALSE, FALSE,
             << "Error: Invalid characters in expression. Only basic arithmetic is supported." >>)
    ELSE LET r == PyEval(expression) IN
         IF r.exc = "" THEN CalculatorResult(FALSE, TRUE, PyStr(r.value))
         ELSE IF r.exc \in ExceptionClasses
              THEN CalculatorResult(FALSE, TRUE, << "Error evaluating expression: ", r.exc >>)
         ELSE CalculatorResult(TRUE, TRUE, << >>)

CalculatorCall ==
    /\ resume_value' = None
    /\ \E expression \in SeqsUpTo(ExprChars, MaxExprLen) :
        /\ fin' = Some(expression)
        /\ fout' = Some(Calculator(expression))
    /\ UNCHANGED << parentVars, pc, subVars, interrupt, reqVars, db_reports, next_id,
                    turns >>
    /\ UNCHANGED stream

SpecCalculator == InitScope("function") /\ [][CalculatorCall]_vars

-----------------------------------------------------------------------------
\* One trial of run_hitl_eval_task.  fin is the task (its scripted responses
\* and max_interrupts), fout the state of the trial: the loop counter, the
\* index of the next scripted response, the interrupt records written so far
\* (one per resume call), the type of the suspension the graph is waiting at,
\* and whether the interrupt/resume loop is over.

ScriptValues ==
    { ResumeDict(Some("redo"), None), ResumeDict(Some("approve"), None),
      ResumeList(<< TopicIds[1] >>) }

PendingTypes == { "checkbox", "review", "confirm" }

\* _get_fallback_response for the types the graph suspends with
GetFallbackResponse(hitl_type) ==
    CASE hitl_type = "checkbox" -> ResumeList(<< >>)
      [] hitl_type = "review" -> ResumeDict(Some("approve"), None)
      [] hitl_type = "confirm" -> ResumeDict(Some("save"), None)

\* where graph.ainvoke can leave the thread: a redo at the review runs another
\* round and suspends at the next review, any other answer lets the run go on
\* to its end or to another suspension
PendingAfter(hitl_type, resume) ==
    IF hitl_type = "review" /\ ReviewAction(resume) = "redo"
    THEN { Some("review") }
    ELSE { None } \cup { Some(t) : t \in PendingTypes }

Trial(loop_iter, response_idx, records, pending, done) ==
    [ loop_iter |-> loop_iter, response_idx |-> response_idx, records |-> records,
      pending |-> pending, done |-> done ]

\* the first graph.ainvoke of a trial; the trials of a task run one after
\* the other
HarnessStart ==
    /\ resume_value' = None
    /\ IF fout = None THEN TRUE ELSE Val(fout).done
    /\ \E hitl_responses \in SeqsUpTo(ScriptValues, MaxScript),
          max_interrupts \in 0..MaxInterrupts,
          pending \in { None } \cup { Some(t) : t \in PendingTypes } :
        /\ fin' = Some([ hitl_responses |-> hitl_responses,
                         max_interrupts |-> max_interrupts ])
        /\ fout' = Some(Trial(0, 0, << >>, pending, FALSE))
    /\ UNCHANGED << parentVars, pc, subVars, interrupt, reqVars, db_reports, next_id,
                    turns >>
    /\ UNCHANGED stream

\* an iteration that does not look at the ceiling
HarnessIterationNoCeiling ==
    /\ resume_value' = None
    /\ fout # None
    /\ ~ Val(fout).done
    /\ LET task == Val(fin)
           t == Val(fout)
       IN IF t.pending = None
          THEN fout' = Some([ t EXCEPT !.done = TRUE ])
          ELSE LET hitl_type == Val(t.pending)
                   value == IF t.response_idx < Len(task.hitl_responses)
                            THEN task.hitl_responses[t.response_idx + 1]
                            ELSE GetFallbackResponse(hitl_type)
                   records == Append(t.records,
                                     [ hitl_type |-> hitl_type, resume_value |-> value ])
               IN \/ \E next \in PendingAfter(hitl_type, value) :
                        fout' = Some(Trial(t.loop_iter + 1, t.response_idx + 1, records,
                                           next, FALSE))
                  \/ fout' = Some(Trial(t.loop_iter, t.response_idx + 1, records,
                                        t.pending, TRUE))
    /\ UNCHANGED << parentVars, pc, subVars, interrupt, reqVars, db_reports, next_id,
                    turns, fin >>
    /\ UNCHANGED stream

\* one pass of "for loop_iter in range(task.max_interrupts)": leave the loop
\* when the range is used up or nothing is pending; otherwise answer the
\* pending interrupt with the next scripted response or the fallback, record
\* it, and resume the graph, which suspends again, ends, or raises (break)
HarnessIteration ==
    /\ resume_value' = None
    /\ fout # None
    /\ ~ Val(fout).done
    /\ LET task == Val(fin)
           t == Val(fout)
       IN IF t.loop_iter >= task.max_interrupts \/ t.pending = None
          THEN fout' = Some([ t EXCEPT !.done = TRUE ])
          ELSE LET hitl_type == Val(t.pending)
                   value == IF t.response_idx < Len(task.hitl_responses)
                            THEN task.hitl_responses[t.response_idx + 1]
                            ELSE GetFallbackResponse(hitl_type)
                   records == Append(t.records,
                                     [ hitl_type |-> hitl_type, resume_value |-> value ])
               IN \/ \E next \in PendingAfter(hitl_type, value) :
                        fout' = Some(Trial(t.loop_iter + 1, t.response_idx + 1, records,
                                           next, FALSE))
                  \/ fout' = Some(Trial(t.loop_iter, t.response_idx + 1, records,
                                        t.pending, TRUE))
    /\ UNCHANGED << parentVars, pc, subVars, interrupt, reqVars, db_reports, next_id,
                    turns, fin >>
    /\ UNCHANGED stream

NextHarness == HarnessStart \/ HarnessIteration

SpecHarness == InitScope("function") /\ [][NextHarness]_vars

-----------------------------------------------------------------------------
(* Claims *)

HasCallNamed(m, name) == \E i \in 1..Len(m.tool_calls) : m.tool_calls[i].name = name

\* C1: should_continue on the latest message routes to research if any tool
\* call is deep_research, otherwise to save-confirm if any is save_report,
\* otherwise to tools if there is a tool call, otherwise to end; the graph
\* maps these routes to prepare_research, save_confirm, tools and END.
C1_RoutingPriority ==
    fout # None =>
        LET m == Val(fin)
            expected ==
                IF m.type = "ai" /\ HasCallNamed(m, "deep_research")
                THEN [ route |-> "deep_research", node |-> "prepare_research" ]
                ELSE IF m.type = "ai" /\ HasCallNamed(m, "save_report")
                THEN [ route |-> "save_confirm", node |-> "save_confirm" ]
                ELSE IF m.type = "ai" /\ Len(m.tool_calls) >= 1
                THEN [ route |-> "tools", node |-> "tools" ]
                ELSE [ route |-> "end", node |-> "end" ]
        IN Val(fout) = expected

\* a turn with both sentinels and a real tool, save_report first, routed to research
C1_Witness ==
    /\ fout # None
    /\ Val(fin).type = "ai"
    /\ Len(Val(fin).tool_calls) = 3
    /\ Val(fin).tool_calls[1].name = "save_report"
    /\ Val(fin).tool_calls[2].name = "calculator"
    /\ Val(fin).tool_calls[3].name = "deep_research"
    /\ Val(fout).route = "deep_research"

\* C10: whenever orchestrate completes, len(explorer_instructions) equals
\* min(len(clarified_topics), depthWidth(depth)), with widths 3, 5 and 8,
\* whatever instruction list the reasoning model returned.
C10_InstructionCount ==
    fout # None =>
        LET width == CASE Val(fin).depth = "quick" -> 3
                       [] Val(fin).depth = "deep" -> 8
                       [] OTHER -> 5
        IN Len(Val(fout).explorer_instructions)
               = Min(Len(Val(fin).clarified_topics), width)

\* What the code guarantees: the count never exceeds that number, and equals
\* it when the model returned at least that many instructions.
C10_InstructionCountAtMost ==
    fout # None =>
        LET n == NumExplorers(Val(fin).clarified_topics, Val(fin).depth) IN
        Len(Val(fout).explorer_instructions) = Min(Val(fin).returned, n)

\* The conversation state of the thread's checkpoint: the parent state, the
\* parent's position and the research sub-pipeline's state and position
conversation == << parentVars, pc, subVars >>

\* C2: a resume call repeated with the same value (a retried resume) appends
\* no message and neither advances nor alters the run: the value is applied
\* at most once per suspension instance and never to a later suspension.
C2_RetriedResumeApplied ==
    [][ (retried' \/ retried) => UNCHANGED conversation ]_vars

\* a retried resume arrives while the run is suspended at review
C2_RetryAtLaterSuspension ==
    /\ retried
    /\ run = "resume"
    /\ pc = "process_research_result"

\* The labels of the options a persisted interrupt payload shows
ShownLabels(payload) == [ i \in 1..Len(payload.options) |-> payload.options[i].label ]

\* C3: a resume continues from the suspension point of the persisted
\* checkpoint and the state it reaches is determined by the checkpoint and
\* the resume value alone: the candidates are those the checkpoint's payload
\* showed, the report is the one under review, the staged report is the one
\* whose save was asked.
C3_ResumeDeterminedByCheckpoint ==
    [][ (interrupt # None /\ resume_value' # None) =>
          LET payload == Val(interrupt)
              v == Val(resume_value')
          IN CASE payload.hitl_type = "checkbox" ->
                    /\ subpc' = "orchestrate"
                    /\ sub' = [ sub EXCEPT
                                  !.clarified_topics =
                                      ClarifySelection(ShownLabels(payload),
                                                       payload.options, v),
                                  !.status = "clarified" ]
               [] payload.hitl_type = "review" ->
                    LET st == ReviewResult([ sub EXCEPT !.report = payload.report ], v) IN
                    IF st.status = "redo"
                    THEN subpc' = "orchestrate" /\ sub' = st
                    ELSE /\ pc' = "process_research_result"
                         /\ report' = IF st.report # None THEN st.report ELSE report
               [] payload.hitl_type = "confirm" ->
                    pending_save' = IF SaveAction(v) = "save" THEN payload.report
                                    ELSE None ]_vars

\* the topics a resume selected are not among the candidates that were shown
C3_SelectionOutsideShown ==
    /\ subpc = "orchestrate"
    /\ resume_value # None
    /\ sub.clarified_topics # << >>
    /\ sub.clarified_topics[Len(sub.clarified_topics)] = TopicPool[MaxTopics + 1]

\* C4: a run suspends only in clarify, in review and in save_confirm, and
\* from a suspension until its resume no node of the parent flow or of the
\* sub-pipeline executes and the conversation state does not change.
C4_SuspensionBlocksRun ==
    /\ [] ( interrupt # None =>
              \/ /\ pc = "deep_research"
                 /\ subpc = "clarify"
                 /\ Val(interrupt).hitl_type = "checkbox"
              \/ /\ pc = "deep_research"
                 /\ subpc = "review"
                 /\ Val(interrupt).hitl_type = "review"
              \/ /\ pc = "save_confirm"
                 /\ subpc = "none"
                 /\ Val(interrupt).hitl_type = "confirm" )
    /\ [][ interrupt # None =>
              \/ UNCHANGED << conversation, interrupt >>
              \/ run = "idle" /\ resume_value' # None /\ interrupt' = None ]_vars

\* a run is suspended at save confirmation, its request has returned
C4_Witness ==
    /\ interrupt # None
    /\ Val(interrupt).hitl_type = "confirm"
    /\ run = "idle"

\* C5: a suspension raised in clarify or review holds the parent at the
\* deep_research node and changes nothing of the parent's state; the parent
\* leaves deep_research only for process_research_result and then the agent,
\* never back to prepare_research or to the turn that issued the call.
C5_NestedSuspensionPropagates ==
    /\ [] ( interrupt # None /\ Val(interrupt).hitl_type \in { "checkbox", "review" }
              => pc = "deep_research" )
    /\ [][ /\ pc = "deep_research" =>
                /\ pc' \in { "deep_research", "process_research_result" }
                /\ UNCHANGED << messages, research_reports, pending_save, topic, depth >>
                /\ pc' = "deep_research" => UNCHANGED report
           /\ pc = "process_research_result" =>
                pc' \in { "process_research_result", "agent" } ]_vars

\* after a review was approved by a resume, the parent answered the research
\* call and is back at the agent
C5_Witness ==
    /\ run = "resume"
    /\ pc = "agent"
    /\ messages # << >>
    /\ Val(LastMessage(messages)).type = "tool"
    /\ Val(LastMessage(messages)).name = "deep_research"
    /\ Val(LastMessage(messages)).content.tag = "research"

\* C6: pending_save is non-null only from the save confirmation being resumed
\* with "save" to the persistence step completing: once save_to_db has run,
\* or the save was cancelled, or no report existed, it is null.
C6_PendingSaveWindow ==
    pending_save # None => pc = "save_to_db"

\* save_to_db has answered the save_report call and the report is still staged
C6_StagedAfterSave ==
    /\ pending_save # None
    /\ messages # << >>
    /\ Val(LastMessage(messages)).type = "tool"
    /\ Val(LastMessage(messages)).content.tag = "saved"

\* The result lists of a round's explorer tasks, in task order
Blocks(ts) == Flatten([ i \in 1..Len(ts) |-> ts[i].results ])

\* C7: every round fans out to its explorers, synthesize starts only when all
\* N explorer tasks of the round's N instructions are done and merged into
\* search_results, and synthesize runs once in the round, before review.
C7_SynthesizeOncePerRound ==
    [][ /\ (subpc = "orchestrate" /\ subpc' # "orchestrate") =>
               /\ subpc' = "explorer"
               /\ Len(tasks') = Len(sub'.explorer_instructions)
        /\ (subpc = "explorer" /\ subpc' # "explorer") => subpc' = "synthesize"
        /\ (subpc' = "synthesize" /\ subpc # "synthesize") =>
               /\ subpc = "explorer"
               /\ Len(tasks') = Len(sub.explorer_instructions)
               /\ \A i \in 1..Len(tasks') : tasks'[i].done
               /\ sub'.search_results = sub.search_results \o Blocks(tasks')
        /\ (subpc = "synthesize" /\ subpc' # "synthesize") => subpc' = "review" ]_vars

\* a round without instructions ended the sub-pipeline with no report
C7_RoundWithoutSynthesize ==
    /\ pc = "process_research_result"
    /\ report = None

\* C8: after the join search_results ends with each explorer's result list
\* as one block, in task order whatever order the explorers finished in;
\* each list is what that explorer made of its own payload and outcome, the
\* earlier entries are kept and so are entries with the same URL.
C8_ConcatenatedBlocks ==
    /\ [] ( subpc \in { "synthesize", "review" } =>
              LET joined == Blocks(tasks)
                  sr == sub.search_results
              IN /\ Len(sr) >= Len(joined)
                 /\ SubSeq(sr, Len(sr) - Len(joined) + 1, Len(sr)) = joined
                 /\ \A i \in 1..Len(tasks) :
                      /\ tasks[i].done
                      /\ tasks[i].state.search_results = << >>
                      /\ tasks[i].results
                           = ExplorerResults(tasks[i].state, Val(tasks[i].outcome)) )
    /\ [][ (subpc = "explorer" /\ subpc' = "synthesize") =>
               /\ Len(sub'.search_results) = Len(sub.search_results) + Len(Blocks(tasks'))
               /\ SubSeq(sub'.search_results, 1, Len(sub.search_results))
                    = sub.search_results ]_vars

\* two explorers returned the same URL, the first of them two entries
C8_Witness ==
    /\ subpc = "synthesize"
    /\ Len(tasks) = 2
    /\ Len(tasks[1].results) = 2
    /\ Len(tasks[2].results) = 1
    /\ tasks[1].results[1].url = tasks[2].results[1].url
    /\ Len(sub.search_results) = 3

\* C9: an explorer whose search raised contributes exactly one entry, whose
\* content is the search error; the other explorers' lists are what their
\* own searches returned; and the round still reaches synthesize and review.
C9_ExplorerFailureContained ==
    /\ \A i \in 1..Len(tasks) :
         tasks[i].done =>
           LET outcome == Val(tasks[i].outcome) IN
           /\ outcome.kind = "raise" =>
                /\ Len(tasks[i].results) = 1
                /\ tasks[i].results[1].content = "Search error"
           /\ outcome.kind = "list" =>
                /\ Len(tasks[i].results) = Len(outcome.items)
                /\ \A k \in 1..Len(outcome.items) :
                     /\ tasks[i].results[k].url = outcome.items[k].url
                     /\ tasks[i].results[k].content = outcome.items[k].content
    /\ (tasks # << >> /\ \A i \in 1..Len(tasks) : tasks[i].done) =>
           /\ subpc \in { "synthesize", "review", "orchestrate" }
           /\ \A i \in 1..Len(tasks) : \A k \in 1..Len(tasks[i].results) :
                \E n \in 1..Len(sub.search_results) :
                    sub.search_results[n] = tasks[i].results[k]

\* the report of a round in which the first explorer's search raised and the
\* second returned two results is under review
C9_Witness ==
    /\ subpc = "review"
    /\ interrupt # None
    /\ sub.report # None
    /\ Len(tasks) >= 2
    /\ Val(tasks[1].outcome).kind = "raise"
    /\ Val(tasks[2].outcome).kind = "list"
    /\ Len(tasks[2].results) = 2

\* A resume answers a pending suspension of the given type in this step
Resumes(hitl_type) ==
    /\ interrupt # None
    /\ Val(interrupt).hitl_type = hitl_type
    /\ resume_value' # None

\* C11: on resume from topic selection with a list of ids, clarified_topics
\* is the labels of exactly those options of the surfaced payload whose ids
\* are in the list, and all the candidates surfaced in that payload when the
\* list is empty.
C11_SelectionFromSurfacedPayload ==
    [][ (Resumes("checkbox") /\ Val(resume_value').kind = "list") =>
          LET payload == Val(interrupt)
              ids == Val(resume_value').ids
          IN sub'.clarified_topics =
                 IF ids = << >> THEN ShownLabels(payload)
                 ELSE SelectLabels(payload.options, ids) ]_vars

\* C12: on resume from review, approve and edit end the sub-pipeline with the
\* report returned to the parent, redo sets status redo and orchestrate is
\* next; the sub-pipeline returns to the parent only from a review that set
\* status approved.
C12_ReviewOutcomes ==
    [][ /\ Resumes("review") =>
              LET v == Val(resume_value')
                  action == IF v.kind = "dict" /\ v.action # None
                            THEN Val(v.action) ELSE "approve"
              IN IF action = "redo"
                 THEN /\ subpc' = "orchestrate"
                      /\ sub'.status = "redo"
                      /\ pc' = "deep_research"
                 ELSE /\ pc' = "process_research_result"
                      /\ subpc' = "none"
                      /\ report' # None
                      /\ action = "approve" => report' = sub.report
        /\ (pc = "deep_research" /\ pc' # "deep_research") =>
              /\ Resumes("review")
              /\ ReviewResult(sub, Val(resume_value')).status = "approved" ]_vars

\* the sub-pipeline returned to the parent from orchestrate
C12_ReturnFromOrchestrate ==
    /\ pc = "process_research_result"
    /\ resume_value = None
    /\ run # "idle"

\* C13: a redo goes to orchestrate, never to clarify, and leaves topic, depth
\* and clarified_topics as they were; an invocation enters clarify once, from
\* its start, and leaves it by the one resume of its checklist.
C13_RedoKeepsSelection ==
    [][ /\ subpc' = "clarify" => subpc \in { "none", "clarify" }
        /\ (subpc = "none" /\ subpc' # "none") => subpc' = "clarify"
        /\ (subpc = "clarify" /\ subpc' # "clarify") =>
              Resumes("checkbox") /\ subpc' = "orchestrate"
        /\ (interrupt' # None /\ interrupt = None
              /\ Val(interrupt').hitl_type = "checkbox") => subpc = "clarify"
        /\ (subpc \in { "orchestrate", "explorer", "synthesize", "review" }
              /\ subpc' # "none") =>
              /\ sub'.topic = sub.topic
              /\ sub'.depth = sub.depth
              /\ sub'.clarified_topics = sub.clarified_topics
              /\ UNCHANGED << topic, depth >>
        /\ (Resumes("review") /\ subpc' # "none") => subpc' = "orchestrate" ]_vars

\* the report of the round after a redo is under review
C13_Witness ==
    /\ redos = 1
    /\ subpc = "review"
    /\ interrupt # None
    /\ sub.clarified_topics # << >>

\* C14: a review resumed with action edit and edits {title: X} returns a
\* report equal to the synthesized one in every field but title, which is X,
\* and the parent appends that report to research_reports.
C14_EditChangesTitleOnly ==
    [][ /\ ( /\ Resumes("review")
             /\ Val(resume_value').kind = "dict"
             /\ Val(resume_value').action = Some("edit")
             /\ Val(resume_value').edits # None ) =>
              /\ pc' = "process_research_result"
              /\ report' # None
              /\ DOMAIN Val(report') = DOMAIN Val(sub.report)
              /\ Val(report').title = Val(Val(resume_value').edits)
              /\ \A f \in DOMAIN Val(sub.report) \ { "title" } :
                   Val(report')[f] = Val(sub.report)[f]
        /\ (pc = "process_research_result" /\ pc' = "agent" /\ report # None) =>
              research_reports' = Append(research_reports, Val(report)) ]_vars

\* the edited report, title X and the synthesized summary, is the newest of
\* research_reports
C14_Witness ==
    /\ pc = "agent"
    /\ run = "resume"
    /\ research_reports # << >>
    /\ research_reports[Len(research_reports)].title = "X"
    /\ research_reports[Len(research_reports)].summary = "S"

\* C15: on n >= 1 reports, oldest first, and any integer index i the selection
\* raises no error; it is the (i+1)-th most recent report when 0 <= i < n and
\* the oldest report when i >= n.
C15_IndexResolution ==
    fout # None =>
        LET reports == Val(fin).research_reports
            n == Len(reports)
            i == Val(fin).report_index
        IN /\ ~ Val(fout).raised
           /\ (0 <= i /\ i < n) => Val(fout).report = Some(reports[n - i])
           /\ i >= n => Val(fout).report = Some(reports[1])

\* the selection on one report and the index -2 raised
C15_RaisedOnNegativeIndex ==
    /\ fout # None
    /\ Val(fout).raised
    /\ Len(Val(fin).research_reports) = 1
    /\ Val(fin).report_index = -2

\* What the code guarantees: for an index that is not negative the selection
\* is the (i+1)-th most recent report, the oldest from n on, with no error
C15_IndexResolutionFromZero ==
    (fout # None /\ Val(fin).report_index >= 0) =>
        LET reports == Val(fin).research_reports
            n == Len(reports)
            i == Val(fin).report_index
        IN /\ ~ Val(fout).raised
           /\ Val(fout).report = Some(reports[n - Min(i, n - 1)])

\* The id of the first call of that name among the tool calls of a message
CallIdOf(m, name) ==
    m.tool_calls[CHOOSE k \in 1..Len(m.tool_calls) :
                    /\ m.tool_calls[k].name = name
                    /\ \A j \in 1..(k - 1) : m.tool_calls[j].name # name].id

\* A tool-result message as the nodes build it
ToolResult(tag, title, id, name) ==
    [ type |-> "tool", content |-> [ tag |-> tag, title |-> title ],
      tool_calls |-> << >>, tool_call_id |-> id, name |-> name ]

\* C16: save_confirm on an empty research_reports does not suspend: it appends
\* one tool result for the save_report call, saying that no report is
\* available, pending_save is null and the agent is next, not save_to_db.
C16_NoReportsShortCircuit ==
    [][ (pc = "save_confirm" /\ research_reports = << >> /\ interrupt = None) =>
          /\ interrupt' = None
          /\ messages' = Append(messages,
                 ToolResult("no_reports", NULL,
                            CallIdOf(messages[Len(messages)], "save_report"),
                            "save_report"))
          /\ pending_save = None
          /\ pending_save' = None
          /\ pc' = "agent" ]_vars

\* the save_report call of a thread without reports was answered
C16_Witness ==
    /\ pc = "agent"
    /\ research_reports = << >>
    /\ messages # << >>
    /\ Val(LastMessage(messages)).type = "tool"
    /\ Val(LastMessage(messages)).content.tag = "no_reports"

\* C17: a save confirmation resumed with action save stages the report of the
\* confirm payload and goes to save_to_db, which appends one 'saved' result
\* for the save_report call; any other response appends one 'cancelled'
\* result, leaves pending_save null and goes to the agent.
C17_SaveConfirmOutcomes ==
    [][ /\ Resumes("confirm") =>
              LET v == Val(resume_value')
                  id == CallIdOf(messages[Len(messages)], "save_report")
              IN IF v.action = Some("save") /\ v.kind \in { "dict", "str" }
                 THEN /\ pending_save' = Val(interrupt).report
                      /\ pending_save' # None
                      /\ pc' = "save_to_db"
                      /\ messages' = messages
                 ELSE /\ messages' = Append(messages,
                             ToolResult("cancelled", NULL, id, "save_report"))
                      /\ pending_save' = None
                      /\ pc' = "agent"
        /\ (pc = "save_to_db" /\ pc' # "save_to_db") =>
              /\ pending_save # None
              /\ messages' = Append(messages,
                     ToolResult("saved", Val(pending_save).title,
                                CallIdOf(messages[Len(messages)], "save_report"),
                                "save_report"))
              /\ pc' = "agent"
        /\ pc' = "save_to_db" => (pc = "save_to_db" \/ Resumes("confirm")) ]_vars

\* a confirmed save was answered by save_to_db in the resumed run
C17_Witness ==
    /\ pc = "agent"
    /\ run = "resume"
    /\ pending_save # None
    /\ Val(LastMessage(messages)).name = "save_report"
    /\ Val(LastMessage(messages)).content = Content("saved", Val(pending_save).title)

\* The tool results that present a research report, by position in messages
ResearchResults(msgs) ==
    { i \in 1..Len(msgs) : /\ msgs[i].type = "tool"
                           /\ msgs[i].name = "deep_research"
                           /\ msgs[i].content.tag = "research" }

\* C18: when the sub-pipeline has returned a report the parent appends one
\* tool result named deep_research for the deep_research call that started
\* the invocation, appends the report once to research_reports and goes to
\* the agent; nothing is appended while the invocation lasts, whatever its
\* suspensions and redo rounds.
C18_OneResultPerReport ==
    /\ [] ( Cardinality(ResearchResults(messages)) = Len(research_reports) )
    /\ [][ /\ (pc = "process_research_result" /\ pc' # pc /\ report # None) =>
                /\ messages' = Append(messages,
                       ToolResult("research", Val(report).title,
                                  CallIdOf(messages[Len(messages)], "deep_research"),
                                  "deep_research"))
                /\ research_reports' = Append(research_reports, Val(report))
                /\ pc' = "agent"
           /\ pc = "deep_research" => UNCHANGED << messages, research_reports >> ]_vars

\* the report of an invocation with a redo round was handed to the agent
C18_Witness ==
    /\ pc = "agent"
    /\ Len(research_reports) = 1
    /\ Cardinality(ResearchResults(messages)) = 1
    /\ Val(LastMessage(messages)).tool_call_id = IdPool[1]
    /\ Val(LastMessage(messages)).content.title = research_reports[1].title

\* C19: an invocation that ends without a report leaves the parent without a
\* report to process, and the parent then appends the tool result saying no
\* report was generated, adds nothing to research_reports and goes to the
\* agent, also when an earlier invocation of the thread produced a report.
C19_NoReportIsRecoverable ==
    [][ /\ (pc = "deep_research" /\ pc' = "process_research_result"
              /\ sub.report = None /\ ~ Resumes("review")) => report' = None
        /\ (pc = "process_research_result" /\ pc' # pc /\ report = None) =>
              /\ messages' = Append(messages,
                     ToolResult("research_none", NULL,
                                CallIdOf(messages[Len(messages)], "deep_research"),
                                "deep_research"))
              /\ research_reports' = research_reports
              /\ pc' = "agent" ]_vars

\* C20: a deep_research call without topic gets one explanatory tool result
\* from prepare_research and the agent is next: the sub-pipeline is not
\* entered and nothing suspends, whatever topic an earlier invocation left.
C20_MissingTopicSkipsResearch ==
    [][ ( /\ pc = "prepare_research"
          /\ pc' # pc
          /\ LET m == messages[Len(messages)]
                 k == CHOOSE k \in 1..Len(m.tool_calls) :
                         /\ m.tool_calls[k].name = "deep_research"
                         /\ \A j \in 1..(k - 1) : m.tool_calls[j].name # "deep_research"
             IN m.tool_calls[k].args.topic = None ) =>
          /\ messages' = Append(messages,
                 ToolResult("no_topic", NULL,
                            CallIdOf(messages[Len(messages)], "deep_research"),
                            "deep_research"))
          /\ pc' = "agent"
          /\ interrupt' = None
          /\ UNCHANGED << subVars, research_reports >> ]_vars

\* a call without topic was answered in a thread that has researched before
C20_Witness ==
    /\ pc = "agent"
    /\ research_reports # << >>
    /\ topic = ""
    /\ Val(LastMessage(messages)).type = "tool"
    /\ Val(LastMessage(messages)).content.tag = "no_topic"

\* C21: every tool-result message in the thread answers a call of an earlier
\* assistant message: its tool_call_id is the id of one of that message's tool
\* calls, and it is never the placeholder "" or "unknown".
C21_ToolResultsAnswerCalls ==
    \A i \in 1..Len(messages) :
        messages[i].type = "tool" =>
            /\ messages[i].tool_call_id \notin { "", "unknown" }
            /\ \E j \in 1..(i - 1) :
                  /\ messages[j].type = "ai"
                  /\ \E k \in 1..Len(messages[j].tool_calls) :
                        messages[j].tool_calls[k].id = messages[i].tool_call_id

\* a thread that holds a research result and a save result, each for its call
C21_Witness ==
    /\ \E i \in 1..Len(messages) :
          messages[i].type = "tool" /\ messages[i].name = "deep_research"
    /\ \E i \in 1..Len(messages) :
          messages[i].type = "tool" /\ messages[i].name = "save_report"

\* C22: a step of the agent node appends exactly one assistant message to
\* messages and changes nothing else of the conversation state; the system
\* prompt built for the model call is not stored.
C22_AgentAppendsOneMessage ==
    [][ (pc = "agent" /\ pc' # pc) =>
          /\ Len(messages') = Len(messages) + 1
          /\ SubSeq(messages', 1, Len(messages)) = messages
          /\ messages'[Len(messages')].type = "ai"
          /\ UNCHANGED << research_reports, pending_save, topic, depth, report,
                          subVars, interrupt, db_reports >> ]_vars

\* the agent answered a thread that holds no system message
C22_Witness ==
    /\ Len(messages) = 2
    /\ messages[1].type = "human"
    /\ messages[2].type = "ai"
    /\ pc = "tools"

\* C23: in every step the old value of messages is a prefix of the new one.
C23_MessagesAppendOnly ==
    [][ /\ Len(messages') >= Len(messages)
        /\ SubSeq(messages', 1, Len(messages)) = messages ]_vars

\* the retrieved context was added behind the history and the run went on
C23_Witness ==
    \E i \in 2..Len(messages) :
        /\ messages[i].type = "system"
        /\ messages[1].type = "human"
        /\ Len(messages) > i

C25_SentinelsNeverExecuted ==
    /\ pc = "tools" =>
          /\ HasToolCalls(messages[Len(messages)])
          /\ ToolNames(messages[Len(messages)]) \subseteq SimpleTools
    /\ \A i \in 1..Len(messages) :
          (messages[i].type = "tool" /\ messages[i].content.tag \in { "result", "error" })
              => messages[i].name \in SimpleTools

\* the tools node is about to run in a thread that has researched before
C25_Witness ==
    /\ pc = "tools"
    /\ research_reports # << >>

\* C26: a failure inside a real tool gives that call a textual error tool
\* result and the agent is next; no step of the tools node ends the run with
\* the terminal error event.
C26_ToolFailureContained ==
    [][ /\ run' # "failed"
        /\ (pc = "tools" /\ run \in { "stream", "resume" } /\ run' = run /\ pc' # pc) =>
              LET calls == messages[Len(messages)].tool_calls IN
              /\ pc' = "agent"
              /\ Len(messages') = Len(messages) + Len(calls)
              /\ SubSeq(messages', 1, Len(messages)) = messages
              /\ \A i \in 1..Len(calls) :
                    /\ messages'[Len(messages) + i].type = "tool"
                    /\ messages'[Len(messages) + i].tool_call_id = calls[i].id ]_vars

\* the request of a run that stopped in the tools node is over, the calls of
\* the last assistant message unanswered
C26_RunAbortedInTools ==
    /\ run = "idle"
    /\ pc = "tools"
    /\ HasToolCalls(messages[Len(messages)])

\* C27: calculator rejects, without evaluating, every expression with a
\* character outside digits + - * / ( ) . and space; an expression inside the
\* whitelist is evaluated and the result is the value as a string, or an
\* error string when the evaluation fails; in no case does it raise.
C27_CalculatorRejectsBeforeEvaluate ==
    fout # None =>
        LET e == Val(fin)
            whitelist == { "0", "1", "2", "3", "4", "5", "6", "7", "8", "9",
                           "+", "-", "*", "/", "(", ")", ".", " " }
            inside == \A i \in 1..Len(e) : e[i] \in whitelist
        IN /\ ~ Val(fout).raised
           /\ ~ inside =>
                 /\ ~ Val(fout).evaluated
                 /\ Val(fout).result[1] =
                       "Error: Invalid characters in expression. Only basic arithmetic is supported."
           /\ inside =>
                 /\ Val(fout).evaluated
                 /\ IF PyEval(e).exc = ""
                    THEN Val(fout).result = PyStr(PyEval(e).value)
                    ELSE Val(fout).result[1] = "Error evaluating expression: "

\* a division by zero came back as an error string
C27_Witness ==
    /\ fin = Some(<< "1", "/", "0" >>)
    /\ fout # None
    /\ ~ Val(fout).raised
    /\ Val(fout).result = << "Error evaluating expression: ", "ZeroDivisionError" >>

\* C28: every suspension payload has hitl_type, title and message; it is a
\* checkbox payload at clarify, a review payload at the report review and a
\* confirm payload at the save confirmation; a checkbox payload has one
\* option per suggested candidate with pairwise distinct ids; a review or
\* confirm payload has the report that is being decided on.
C28_PayloadStructure ==
    interrupt # None =>
        LET p == Val(interrupt) IN
        /\ { "hitl_type", "title", "message", "options", "report" } \subseteq DOMAIN p
        /\ p.title # ""
        /\ p.message # << >>
        /\ p.hitl_type = CASE pc = "save_confirm" -> "confirm"
                           [] pc = "deep_research" /\ subpc = "clarify" -> "checkbox"
                           [] pc = "deep_research" /\ subpc = "review" -> "review"
                           [] OTHER -> "none"
        /\ p.hitl_type = "checkbox" =>
              /\ [ i \in 1..Len(p.options) |-> p.options[i].label ] \in CandidateLists
              /\ \A i, j \in 1..Len(p.options) :
                    p.options[i].id = p.options[j].id => i = j
        /\ p.hitl_type = "review" => p.report # None /\ p.report = sub.report
        /\ p.hitl_type = "confirm" =>
              /\ research_reports # << >>
              /\ p.report = Some(SelectedReport(research_reports, ReportIndex(messages)))

\* a save confirmation is pending for the report of the thread
C28_Witness ==
    /\ interrupt # None
    /\ Val(interrupt).hitl_type = "confirm"
    /\ Val(interrupt).report = Some(research_reports[1])
    /\ Val(interrupt).title = "Save Research Report"

\* C29: in every step, also one that starts a run, resumes or completes a
\* research invocation, the old value of research_reports is a prefix of
\* the new one.
C29_ResearchReportsOnlyGrows ==
    [][ /\ Len(research_reports') >= Len(research_reports)
        /\ SubSeq(research_reports', 1, Len(research_reports)) = research_reports ]_vars

\* a second run of the thread added a report behind the report of the first
C29_Witness ==
    /\ Len(research_reports) = 2
    /\ runs = 2

\* C30: a research invocation starts its sub-pipeline with the topic and
\* depth the parent prepared and nothing else: no clarified topics,
\* instructions, search results, report or status, whatever an earlier
\* invocation of the thread left; when it returns its state is dropped.
C30_FreshSubPipelineState ==
    /\ [][ (subpc = "none" /\ subpc' # "none") =>
              /\ sub' = [ topic |-> topic, depth |-> depth,
                          clarified_topics |-> << >>,
                          explorer_instructions |-> << >>,
                          search_results |-> << >>,
                          report |-> None, status |-> "" ]
              /\ tasks' = << >> ]_vars
    /\ [] (subpc = "none" =>
              /\ sub.clarified_topics = << >>
              /\ sub.explorer_instructions = << >>
              /\ sub.search_results = << >>
              /\ sub.report = None
              /\ sub.status = ""
              /\ tasks = << >>)

\* a later invocation is at its first step, the thread holds an earlier report
C30_Witness ==
    /\ subpc = "clarify"
    /\ interrupt = None
    /\ research_reports # << >>
    /\ report # None
    /\ sub.report = None
    /\ sub.search_results = << >>

\* C35: after a redo the results of the earlier round are gone: when the
\* explorers of a round have joined, search_results holds the results of
\* this round's explorers and nothing else.
C35_RedoDiscardsEarlierResults ==
    subpc \in { "synthesize", "review" } => sub.search_results = Blocks(tasks)

\* the second round is about to synthesize with the first round's results
\* still in front of its own
C35_EarlierResultsKept ==
    /\ subpc = "synthesize"
    /\ redos = 1
    /\ Len(sub.search_results) > Len(Blocks(tasks))

\* C37: a row is written to the database only for the report staged in
\* pending_save, and a report is staged only by a resume of the save
\* confirmation with action save, as the report that confirmation showed;
\* any other answer to the confirmation and the no-reports path leave
\* nothing staged.
C37_OnlyConfirmedReportsWritten ==
    [][ /\ db_reports' # db_reports =>
              /\ pending_save # None
              /\ db_reports' = Append(db_reports, Val(pending_save))
        /\ (pending_save' # pending_save /\ pending_save' # None) =>
              /\ Resumes("confirm")
              /\ Val(resume_value').action = Some("save")
              /\ pending_save' = Val(interrupt).report
        /\ (Resumes("confirm") /\ Val(resume_value').action # Some("save")) =>
              pending_save' = None
        /\ (pc = "save_confirm" /\ pc' # pc /\ research_reports = << >>) =>
              pending_save' = None ]_vars

\* the report the user confirmed is the one row of the database
C37_Witness ==
    /\ Len(db_reports) = 1
    /\ db_reports[1] \in Range(research_reports)
    /\ run = "idle"
    /\ \E i \in 1..Len(messages) :
          messages[i].type = "tool" /\ messages[i].content.tag = "saved"

\* C38: a confirmed save writes its report once: the database never holds
\* more rows than the thread holds results of confirmed saves.
C38_WrittenOncePerSave ==
    Len(db_reports) <=
        Cardinality({ i \in 1..Len(messages) :
                        messages[i].type = "tool" /\ messages[i].content.tag = "saved" })

\* the report of the one confirmed save is in the database twice
C38_WrittenAgain ==
    /\ Len(db_reports) = 2
    /\ db_reports[1] = db_reports[2]
    /\ Cardinality({ i \in 1..Len(messages) :
                       messages[i].type = "tool" /\ messages[i].content.tag = "saved" }) = 1

\* the position of the human message that started the current run
RunStart(msgs) ==
    IF \E i \in 1..Len(msgs) : msgs[i].type = "human"
    THEN CHOOSE i \in 1..Len(msgs) :
            /\ msgs[i].type = "human"
            /\ \A j \in (i + 1)..Len(msgs) : msgs[j].type # "human"
    ELSE 0

\* C39: when the agent node is about to run, every tool call of every
\* assistant message of the run has exactly one tool-result message with
\* its id.
C39_EveryCallAnswered ==
    (pc = "agent" /\ run \in { "stream", "resume" }) =>
        \A i \in (RunStart(messages) + 1)..Len(messages) :
            messages[i].type = "ai" =>
                \A k \in 1..Len(messages[i].tool_calls) :
                    Cardinality({ j \in 1..Len(messages) :
                                    /\ messages[j].type = "tool"
                                    /\ messages[j].tool_call_id = messages[i].tool_calls[k].id })
                        = 1

\* the agent is next after a research whose turn also called the calculator
C39_CallLeftUnanswered ==
    /\ pc = "agent"
    /\ run \in { "stream", "resume" }
    /\ Val(LastMessage(messages)).type = "tool"
    /\ Val(LastMessage(messages)).name = "deep_research"
    /\ Len(messages) >= 2
    /\ messages[Len(messages) - 1].type = "ai"
    /\ Len(messages[Len(messages) - 1].tool_calls) = 2

\* C40: a research invocation returns to the parent only from the report
\* review, with a report, also when orchestrate yields no instruction.
C40_ReviewBeforeReturn ==
    [][ (pc = "deep_research" /\ pc' = "process_research_result") =>
            /\ subpc = "review"
            /\ sub.report # None
            /\ report' # None ]_vars

\* an invocation whose topics were selected returned without any review
C40_ReturnedWithoutReview ==
    /\ pc = "process_research_result"
    /\ report = None
    /\ research_reports = << >>
    /\ redos = 0
    /\ interrupt = None

\* C36: a trial of the eval harness issues at most max_interrupts resume
\* calls; the i-th call answers the interrupt then pending with the i-th
\* scripted response, or with the fallback of that interrupt's type (approve
\* at a review) once the script is used up; the loop adds at most one call
\* per iteration and is over after max_interrupts iterations at the latest,
\* also when every scripted response is redo.
C36_HarnessCeiling ==
    /\ [] ( fout # None =>
              LET task == Val(fin)
                  t == Val(fout)
              IN /\ Len(t.records) <= task.max_interrupts
                 /\ t.loop_iter <= task.max_interrupts
                 /\ \A i \in 1..Len(t.records) :
                       t.records[i].resume_value =
                           IF i <= Len(task.hitl_responses)
                           THEN task.hitl_responses[i]
                           ELSE CASE t.records[i].hitl_type = "review" ->
                                        ResumeDict(Some("approve"), None)
                                  [] t.records[i].hitl_type = "confirm" ->
                                        ResumeDict(Some("save"), None)
                                  [] OTHER -> ResumeList(<< >>) )
    /\ [][ (fout # None /\ ~ Val(fout).done) =>
              /\ Len(Val(fout').records) <= Len(Val(fout).records) + 1
              /\ SubSeq(Val(fout').records, 1, Len(Val(fout).records)) = Val(fout).records
              /\ (Val(fout).loop_iter = Val(fin).max_interrupts) => Val(fout').done ]_vars

\* a script of redo answers only was cut off by the ceiling, a review still
\* pending
C36_Witness ==
    /\ fout # None
    /\ Val(fout).done
    /\ Val(fin).max_interrupts = 2
    /\ Val(fin).hitl_responses
         = << ResumeDict(Some("redo"), None), ResumeDict(Some("redo"), None) >>
    /\ Len(Val(fout).records) = 2
    /\ Val(fout).pending = Some("review")
    /\ Val(fout).loop_iter = 2

\* the positions of the events of that name in a stream
EventsNamed(ev, name) == { i \in 1..Len(ev) : ev[i].event = name }

\* C31: when an exception surfaces the run stops: the failing step leaves
\* the checkpoint as the last completed step wrote it, the stream of the
\* request gets exactly one error event, and the checkpoint is still the
\* same when the request is over.
C31_FailureKeepsLastGoodState ==
    /\ [][ /\ run' = "failed" =>
                 UNCHANGED << parentVars, pc, subVars, interrupt, db_reports >>
           /\ run = "failed" =>
                 /\ run' = "idle"
                 /\ UNCHANGED << parentVars, pc, subVars, interrupt, db_reports >>
                 /\ Cardinality(EventsNamed(stream'.events, "error")) = 1 ]_vars
    /\ [] ( /\ run = "failed" => EventsNamed(stream.events, "error") = { }
            /\ Cardinality(EventsNamed(stream.events, "error")) <= 1 )

\* the request of a run that failed in the tools node is over, its stream
\* holds the error event and the thread still waits at the tools node
C31_Witness ==
    /\ run = "idle"
    /\ pc = "tools"
    /\ EventsNamed(stream.events, "error") # { }
    /\ Val(LastMessage(messages)).type = "ai"

\* C32: the stream of a request that stopped at a suspension has an
\* interrupt event with that suspension's payload before its end event; a
\* stream has no interrupt event while the run goes on, and none when the
\* request is over without a pending suspension.
C32_InterruptEventBeforeEnd ==
    LET ev == stream.events
        ints == EventsNamed(ev, "interrupt")
    IN /\ run # "idle" => ints = { }
       /\ (run = "idle" /\ interrupt = None) => ints = { }
       /\ (run = "idle" /\ interrupt # None) =>
             /\ ints # { }
             /\ \A i \in ints :
                   /\ ev[i].payload = interrupt
                   /\ i < Len(ev)
             /\ ev[Len(ev)].event = "end"

\* the stream of a request that stopped at the report review
C32_Witness ==
    /\ run = "idle"
    /\ interrupt # None
    /\ Val(interrupt).hitl_type = "review"
    /\ \E i \in EventsNamed(stream.events, "interrupt") :
          stream.events[i].payload = interrupt

\* C33: every assistant or tool-result message a step appends to messages
\* has one messages/complete event carrying it among the events the step
\* adds to the stream.
C33_CompleteEventPerMessage ==
    [][ LET old == stream.events
            new == stream'.events
            added == IF Len(new) >= Len(old) /\ SubSeq(new, 1, Len(old)) = old
                     THEN SubSeq(new, Len(old) + 1, Len(new))
                     ELSE new
        IN \A i \in (Len(messages) + 1)..Len(messages') :
              messages'[i].type \in { "ai", "tool" } =>
                 Cardinality({ j \in EventsNamed(added, "messages/complete") :
                                 added[j].message = Some(messages'[i]) }) = 1 ]_vars

\* the request is over, the thread got the result of a research, and the
\* stream has no messages/complete event with a tool message
C33_ResultNeverStreamed ==
    /\ run = "idle"
    /\ messages # << >>
    /\ Val(LastMessage(messages)).type = "ai"
    /\ \E i \in 1..Len(messages) :
          messages[i].type = "tool" /\ messages[i].content.tag = "research"
    /\ \A j \in EventsNamed(stream.events, "messages/complete") :
          Val(stream.events[j].message).type # "tool"
    /\ EventsNamed(stream.events, "node/status") \cap
          { j \in 1..Len(stream.events) :
              stream.events[j].node = "process_research_result" } # { }

====
